---- MODULE Spec2Model ----
(***************************************************************************)
(* crabroll: a stepper-driven roller blind controller.                     *)
(*                                                                         *)
(* Part 1 models the step planner of iter-step-gen/src/lib.rs (Stepper and *)
(* its three plan iterators).  Part 2 models the motor dispatcher of       *)
(* crabroll/src/motor.rs together with the input tasks of                  *)
(* crabroll/src/main.rs that signal commands on LAST_COMMAND.              *)
(*                                                                         *)
(* Tick arithmetic is scaled: the planner computes in u64 ticks at TICK_HZ *)
(* ticks per second.  TLC integers are 32 bit, so the model keeps the      *)
(* shape of the arithmetic (saturation, floor division, the carry rem) at  *)
(* a smaller TICK_HZ and with U64_MAX = U32_MAX = 2^31 - 1.  As in the     *)
(* program, TICK_HZ^3 < U64_MAX, so a cubed delay saturates only for the   *)
(* seed Duration::MAX.                                                     *)
(***************************************************************************)
EXTENDS Integers, Sequences, FiniteSets, TLC

VARIABLES
    stepper,     \* the Stepper struct (lib.rs 44-65)
    plan,        \* the live plan iterator borrowing the Stepper, or NoPlan
    ret,         \* what the last planner call returned to its caller
    emitted,     \* delays yielded by the live plan since it was built
    start_pos,   \* position when the live plan was built
    target,      \* target_pos given to the last planned_move call
    panicked,    \* the program panicked (arithmetic overflow check)
    overflow_checks, \* build profile: overflow panics (TRUE) or wraps (FALSE)
    LAST_COMMAND,    \* Signal<Command>: the pending command, or NoCmd
    CURRENT_POS,     \* Signal<i8>: the pending position percentage, or None
    CONFIRM_SIGNAL,  \* Signal<()>: TRUE when signaled and not yet taken
    ERROR_SIGNAL,    \* Signal<ErrorSeverity>: "none", "Soft" or "Hard"
    nvs,             \* the u32 stored under TRAVEL_LIMIT_KEY, or None
    mpc,             \* where motor_task is suspended or about to run
    cur,             \* the command motor_task is executing
    step_pin,        \* level of the STEP output
    dir_pin,         \* level of the DIR output
    buttons,         \* per button task: "idle" (waiting for low) or "pressed"
    sig_count,       \* number of commands signaled so far; the n-th has id n
    exec_log,        \* ids of the commands motor_task took with wait(), in order
    superseded,      \* ids replaced in LAST_COMMAND before anything took them
    stop_signaled,   \* a StopJog was signaled during the jog being executed
    cur_pct,         \* the percentage of the MoveToPos motor_task took last
    io,              \* outcome <<fetch_item, store_item>> of the flash calls made
                     \* at boot or by the command taken last; "-": not called
    mq,              \* mqtt_task: "down" (connecting) or "up" (in its session loop)
    payload,         \* the publish mqtt_task handled in its latest step, or
                     \* NoPublish when that step handled none
    calc,            \* input and result of the target computation (CalcSpec)
    held,            \* per button task: the level of its pin, where the task is
                     \* suspended and the time measured since start_press
    led,             \* error_led_task: "waiting", "on" (blinking) or "done"
    tmc,             \* the Tmc2209 driver, the chips behind it and its last call
    rr,              \* one read_register call: the bytes arriving and its buffer
    rp               \* a planned move computed at full tick resolution (AccelSpec)

pvars == <<stepper, plan, ret, emitted, start_pos, target, panicked, overflow_checks>>

dvars == <<LAST_COMMAND, CURRENT_POS, CONFIRM_SIGNAL, ERROR_SIGNAL, nvs, mpc, cur,
           step_pin, dir_pin, buttons, sig_count, exec_log, superseded, stop_signaled,
           cur_pct, io, mq, payload, calc, held, led, tmc, rr, rp>>

\* the variables only the TMC2209 driver, the error LED and the full-resolution
\* planner touch
ovars == <<led, tmc, rr, rp>>

\* the variables motor_task and the button tasks never touch
xvars == <<mq, payload, calc, held, ovars>>

vars == <<pvars, dvars>>

-----------------------------------------------------------------------------
(* Bounds of the model *)

TICK_HZ == 1000
MaxTravel == 12
MaxPos == 14
MaxEmitted == 16
\* DEFAULT_TRAVEL_LIMIT of motor.rs (2048 steps), scaled down
DEFAULT_TRAVEL_LIMIT == 4
DispMaxPos == 5
MaxHomeSteps == 1
MaxSignals == 3

\* motor.rs 21-23
MAX_VEL == 2048
MAX_ACCEL == 225
START_VEL == 64

U64_MAX == 2147483647 + 0
U32_MAX == 2147483647 + 0

\* Option<u32>::None for curent_pos
None == -1

Direction == {"Cw", "Ccw"}

TravelLimits == {1, 2, MaxTravel}
\* <<max_speed, max_accel, start_vel>>: a ramp that reaches cruise, one whose
\* first delay equals cruise_delay, and one whose first delay is below it
Configs == {<<20, 50, 10>>, <<10, 32, 6>>, <<10, 50, 10>>}

-----------------------------------------------------------------------------
(* Integer helpers of core / embassy_time used by the planner *)

Min(a, b) == IF a < b THEN a ELSE b
Max(a, b) == IF a > b THEN a ELSE b

abs_diff(a, b) == IF a > b THEN a - b ELSE b - a

div_ceil(a, b) == (a + b - 1) \div b

saturating_sub(a, b) == IF a > b THEN a - b ELSE 0

saturating_add64(a, b) == IF a > U64_MAX - b THEN U64_MAX ELSE a + b

saturating_mul32(a, b) == IF a = 0 \/ b = 0 THEN 0
                          ELSE IF a > U32_MAX \div b THEN U32_MAX ELSE a * b

saturating_pow2_32(a) == saturating_mul32(a, a)

saturating_pow3_64(p) ==
    IF p = 0 THEN 0
    ELSE IF p > U64_MAX \div p THEN U64_MAX
    ELSE IF p * p > U64_MAX \div p THEN U64_MAX
    ELSE p * p * p

\* a + b in u64 without an overflow check: TRUE when the sum does not fit
add_overflows64(a, b) == a > U64_MAX - b
wrapping_add64(a, b) == IF add_overflows64(a, b) THEN a - (U64_MAX - b) - 1 ELSE a + b

\* u32::saturating_add_signed(+1 / -1)
saturating_add_signed(p, d) ==
    IF d > 0 THEN (IF p >= U32_MAX THEN U32_MAX ELSE p + 1)
    ELSE (IF p = 0 THEN 0 ELSE p - 1)

isqrt(n) == CHOOSE r \in 0..n : r * r <= n /\ (r + 1) * (r + 1) > n

\* embassy_time::Duration::from_hz, in ticks
from_hz(hz) == IF hz >= TICK_HZ THEN 1 ELSE (TICK_HZ + hz \div 2) \div hz

opposite(d) ==
    CASE d = "Cw" -> "Ccw"
      [] d = "Ccw" -> "Cw"
      [] d = "ToHome" -> "AwayFromHome"
      [] d = "AwayFromHome" -> "ToHome"

-----------------------------------------------------------------------------
(* Stepper: construction and derived fields *)

compute_accel_divisor(max_accel) == (TICK_HZ * TICK_HZ) \div max_accel

compute_inital_delay(start_vel, max_accel) ==
    TICK_HZ \div isqrt(start_vel * start_vel + 2 * max_accel)

compute_max_stopping_distance(max_speed, start_vel, max_accel) ==
    saturating_sub(saturating_pow2_32(max_speed), saturating_pow2_32(start_vel))
        \div (2 * max_accel)

compute_cruise_delay(max_speed) == from_hz(max_speed)

StepperNew(travel_limit, max_speed, max_accel, start_vel, dir_to_home) ==
    [ travel_limit |-> travel_limit,
      max_speed |-> max_speed,
      max_accel |-> max_accel,
      start_vel |-> start_vel,
      dir_to_home |-> dir_to_home,
      curent_pos |-> None,
      max_stopping_distance |->
          compute_max_stopping_distance(max_speed, start_vel, max_accel),
      cruise_delay |-> compute_cruise_delay(max_speed),
      accel_divisor |-> compute_accel_divisor(max_accel),
      inital_delay |-> compute_inital_delay(start_vel, max_accel) ]

pos(s) == s.curent_pos

update_pos_one_step(s, dir) ==
    [s EXCEPT !.curent_pos =
        saturating_add_signed(s.curent_pos, IF dir = s.dir_to_home THEN 1 ELSE -1)]

NoPlan == [kind |-> "none"]

Some(d) == [tag |-> "Some", val |-> d]
RetNone == [tag |-> "None"]
Ok(dir) == [tag |-> "Ok", dir |-> dir]
Err(e) == [tag |-> "Err", err |-> e]
NoRet == [tag |-> "-"]

-----------------------------------------------------------------------------
(* Plan constructors: each borrows the Stepper and returns (iterator, dir) *)

\* a homing_move whose delay is that of max_speed
homing_move_cruise_delay(s) ==
    [ plan |-> [kind |-> "homing",
                delay |-> s.cruise_delay,
                steps_moved |-> 0],
      ret |-> Ok(s.dir_to_home) ]

homing_move(s) ==
    [ plan |-> [kind |-> "homing",
                delay |-> TICK_HZ \div s.start_vel,
                steps_moved |-> 0],
      ret |-> Ok(s.dir_to_home) ]

\* planned_move with the bounds guard off by one (rejects target == travel_limit)
planned_move_guard_ge(s, target_pos) ==
    IF s.curent_pos = None THEN [plan |-> NoPlan, ret |-> Err("NotHomed")]
    ELSE IF target_pos >= s.travel_limit
        THEN [plan |-> NoPlan, ret |-> Err("MoveOutOfBounds")]
    ELSE [ plan |-> [kind |-> "planned",
                     phase |-> "Accelerate",
                     stopping_distance |-> 2,
                     prev_delay |-> U64_MAX,
                     steps_to_travel |-> abs_diff(s.curent_pos, target_pos),
                     dir |-> s.dir_to_home,
                     rem |-> 0],
           ret |-> Ok(s.dir_to_home) ]

planned_move(s, target_pos) ==
    IF s.curent_pos = None THEN [plan |-> NoPlan, ret |-> Err("NotHomed")]
    ELSE IF target_pos > s.travel_limit
        THEN [plan |-> NoPlan, ret |-> Err("MoveOutOfBounds")]
    ELSE
        LET current_pos == s.curent_pos
            move_distance == abs_diff(current_pos, target_pos)
            stopping_distance ==
                (IF move_distance > s.max_stopping_distance * 2
                    THEN s.max_stopping_distance
                    ELSE div_ceil(move_distance, 2)) + 2
            dir == IF current_pos < target_pos
                       THEN s.dir_to_home
                       ELSE opposite(s.dir_to_home)
        IN [ plan |-> [kind |-> "planned",
                       phase |-> "Accelerate",
                       stopping_distance |-> stopping_distance,
                       prev_delay |-> U64_MAX,
                       steps_to_travel |-> move_distance,
                       dir |-> dir,
                       rem |-> 0],
             ret |-> Ok(dir) ]

continuous_jog(s, dir) ==
    IF s.curent_pos = None THEN [plan |-> NoPlan, ret |-> Err("NotHomed")]
    ELSE [ plan |-> [kind |-> "jog",
                     delay |-> TICK_HZ \div s.start_vel,
                     dir |-> dir],
           ret |-> Ok(dir) ]

\* a set_travel_limit that leaves the limit as it was
set_travel_limit_keep(s, travel_limit) == s

set_travel_limit(s, travel_limit) == [s EXCEPT !.travel_limit = travel_limit]

-----------------------------------------------------------------------------
(* Iterator::next of the three plans.  Each returns the Stepper and the     *)
(* iterator after the call, the Option<Duration> returned, and whether the  *)
(* call panicked.                                                           *)

Step(s, p, r) == [stepper |-> s, plan |-> p, ret |-> r, panic |-> FALSE]
Panic(s, p) == [stepper |-> s, plan |-> p, ret |-> NoRet, panic |-> TRUE]

\* HomingMove::next that forgets to zero the position at the endstop
HomingMove_next_no_zero(s, hm, endstop) ==
    IF endstop
        THEN Step(s, hm, RetNone)
        ELSE Step(s, [hm EXCEPT !.steps_moved = hm.steps_moved + 1], Some(hm.delay))

\* HomingMove::next: endstop is the value the endstop closure returns
HomingMove_next(s, hm, endstop) ==
    IF endstop
        THEN Step([s EXCEPT !.curent_pos = 0], hm, RetNone)
        ELSE Step(s, [hm EXCEPT !.steps_moved = hm.steps_moved + 1], Some(hm.delay))

\* The delay recurrence shared by Accelerate (sub) and Decelerate (add):
\* pdividend = p^3 + rem, pdiff = pdividend / accel_divisor, clamped result.
clamp_delay(s, raw) == Min(Max(raw, s.cruise_delay), s.inital_delay)

AccelerateStep(s, pm, checks) ==
    IF pm.steps_to_travel = 0 THEN Step(s, pm, RetNone)
    ELSE
        LET n == pm.steps_to_travel - 1
            s1 == update_pos_one_step(s, pm.dir)
            toDecel == n <= pm.stopping_distance
            rem0 == IF toDecel THEN 0 ELSE pm.rem
            p == pm.prev_delay
            cube == saturating_pow3_64(p)
            pdividend == wrapping_add64(cube, rem0)
            pdiff == pdividend \div s.accel_divisor
            rem1 == pdividend % s.accel_divisor
            d == clamp_delay(s, saturating_sub(p, pdiff))
            phase1 == IF d = s.cruise_delay THEN "Cruise"
                      ELSE IF toDecel THEN "Decelerate" ELSE "Accelerate"
        IN IF add_overflows64(cube, rem0) /\ checks
              THEN Panic(s1, [pm EXCEPT !.steps_to_travel = n])
              ELSE Step(s1,
                        [pm EXCEPT !.steps_to_travel = n, !.rem = rem1,
                                   !.prev_delay = d, !.phase = phase1],
                        Some(d))

CruiseStep(s, pm, checks) ==
    IF pm.steps_to_travel = 0 /\ checks THEN Panic(s, pm)
    ELSE
        LET n == IF pm.steps_to_travel = 0 THEN U32_MAX ELSE pm.steps_to_travel - 1
            s1 == update_pos_one_step(s, pm.dir)
            toDecel == n <= pm.stopping_distance
        IN Step(s1,
                [pm EXCEPT !.steps_to_travel = n,
                           !.phase = IF toDecel THEN "Decelerate" ELSE "Cruise",
                           !.rem = IF toDecel THEN 0 ELSE pm.rem],
                Some(pm.prev_delay))

DecelerateStep(s, pm, checks) ==
    IF pm.steps_to_travel = 0 THEN Step(s, pm, RetNone)
    ELSE
        LET n == pm.steps_to_travel - 1
            s1 == update_pos_one_step(s, pm.dir)
            p == pm.prev_delay
            cube == saturating_pow3_64(p)
            pdividend == wrapping_add64(cube, pm.rem)
            pdiff == pdividend \div s.accel_divisor
            rem1 == pdividend % s.accel_divisor
            d == clamp_delay(s, saturating_add64(p, pdiff))
        IN IF add_overflows64(cube, pm.rem) /\ checks
              THEN Panic(s1, [pm EXCEPT !.steps_to_travel = n])
              ELSE Step(s1,
                        [pm EXCEPT !.steps_to_travel = n, !.rem = rem1,
                                   !.prev_delay = d],
                        Some(d))

PlannedMove_next(s, pm, checks) ==
    CASE pm.phase = "Accelerate" -> AccelerateStep(s, pm, checks)
      [] pm.phase = "Cruise" -> CruiseStep(s, pm, checks)
      [] pm.phase = "Decelerate" -> DecelerateStep(s, pm, checks)

\* a ContinuousJog::next that takes its step before asking whether to continue
ContinuousJog_next_step_first(s, cj, continue) ==
    IF continue
        THEN Step(update_pos_one_step(s, cj.dir), cj, Some(cj.delay))
        ELSE Step(update_pos_one_step(s, cj.dir), cj, RetNone)

\* ContinuousJog::next: continue is the value the continue closure returns
ContinuousJog_next(s, cj, continue) ==
    IF continue
        THEN Step(update_pos_one_step(s, cj.dir), cj, Some(cj.delay))
        ELSE Step(s, cj, RetNone)

-----------------------------------------------------------------------------
(* Commands and signals (main.rs 333-348) *)

CmdDirection == {"ToHome", "AwayFromHome"}

NoCmd == [cmd |-> "none", dir |-> "-", pct |-> 0, id |-> 0]
Home == [cmd |-> "Home", dir |-> "-", pct |-> 0, id |-> 0]
StartJog(d) == [cmd |-> "StartJog", dir |-> d, pct |-> 0, id |-> 0]
StopJog == [cmd |-> "StopJog", dir |-> "-", pct |-> 0, id |-> 0]
SetBottom == [cmd |-> "SetBottom", dir |-> "-", pct |-> 0, id |-> 0]
MoveToPos(n) == [cmd |-> "MoveToPos", dir |-> "-", pct |-> n, id |-> 0]

\* A payload is a sequence of bytes, written as characters; "xFF" stands for
\* a byte that no UTF-8 text contains
DigitChars == <<"0", "1", "2", "3", "4", "5", "6", "7", "8", "9">>

is_digit(ch) == \E d \in 1..10 : DigitChars[d] = ch

to_digit(ch) == (CHOOSE d \in 1..10 : DigitChars[d] = ch) - 1

\* str::from_utf8(&e.message).is_ok()
from_utf8_ok(bytes) == \A i \in 1..Len(bytes) : bytes[i] # "xFF"

\* the value of a run of decimal digits, accumulated left to right
RECURSIVE digits_value(_, _)
digits_value(ds, acc) ==
    IF ds = <<>> THEN acc
    ELSE digits_value(Tail(ds), Min(10 * acc + to_digit(Head(ds)), 1000))

ParseOk(v) == [ok |-> TRUE, val |-> v]
ParseErr == [ok |-> FALSE, val |-> 0]

\* str::parse::<i8>: an optional sign, then one or more decimal digits, the
\* value within i8
parse_i8(str) ==
    IF str = <<>> THEN ParseErr
    ELSE LET signed == Head(str) \in {"+", "-"}
             ds == IF signed THEN Tail(str) ELSE str
             v == IF Head(str) = "-" THEN 0 - digits_value(ds, 0)
                                     ELSE digits_value(ds, 0)
         IN IF ds = <<>> \/ (\E i \in 1..Len(ds) : ~is_digit(ds[i])) THEN ParseErr
            ELSE IF v < -128 \/ v > 127 THEN ParseErr
            ELSE ParseOk(v)

\* the payloads published on the command topic while the dispatcher is
\* checked together with the buttons
DispatchPayloads == {<<"5", "0">>}

\* the payloads published while the MQTT ingress is checked
NoPublish == [topic |-> "-", bytes |-> <<>>]

Payloads ==
    { <<>>, <<"5", "0">>, <<"1", "2", "0">>, <<"1", "2", "8">>, <<"-", "1">>,
      <<"h", "i">>, <<"5", "xFF">> }

\* the publishes that arrive: each payload on the command topic, and one
\* publish on a topic that is not the command topic
Publishes ==
    {<<"command", b>> : b \in Payloads} \cup {<<"other", <<"5", "0">>>>}

\* what the flash may hold under TRAVEL_LIMIT_KEY at boot
NvsInit == {None, 3}

DIR_TO_HOME == "Low"
not_level(l) == IF l = "Low" THEN "High" ELSE "Low"

\* a signal that keeps a pending value instead of replacing it
signal_keep_pending(slot, v) == IF slot.cmd = "none" THEN v ELSE slot

\* embassy_sync Signal::signal: the new value replaces whatever is pending
signal(slot, v) == v

\* Signal::wait on a pending value, and Signal::try_take: the value is taken
\* and the signal is left empty
take(slot) == [val |-> slot, slot |-> NoCmd]

\* a continuation closure that stops the jog on any pending command
jog_continue_any(slot) ==
    LET t == take(slot)
    IN [continue |-> t.val.cmd = "none", slot |-> t.slot]

\* the continuation closure of execute_jog:
\* !LAST_COMMAND.try_take().is_some_and(|c| c == Command::StopJog)
jog_continue_fn(slot) ==
    LET t == take(slot)
    IN [continue |-> ~(t.val.cmd = "StopJog"), slot |-> t.slot]

\* a plan whose every poll takes the pending command, whatever its kind
predicate_slot_any(p, lc) == jog_continue_fn(lc).slot

\* LAST_COMMAND after one poll of plan p: only the closure execute_jog gives
\* to continuous_jog touches it; the homing closure reads the endstop pin and
\* a planned move has no closure (motor.rs 154, 164, 181-188)
predicate_slot(p, lc) == IF p.kind = "jog" THEN jog_continue_fn(lc).slot ELSE lc

\* a dispatcher that signals the position in steps
position_steps(s) == IF pos(s) = None THEN 0 ELSE pos(s)

\* the value motor_task signals on CURRENT_POS
position_percent(s) ==
    IF pos(s) = None THEN 0
    ELSE LET v == (pos(s) * 100) \div s.travel_limit
         IN IF v <= 127 THEN v ELSE 100

\* no target computed (yet)
NoTarget == [panic |-> FALSE, overflow |-> FALSE, target |-> <<0, 0>>]

NoCalc == [pct |-> 0, tl |-> <<0, 0>>, done |-> FALSE, out |-> NoTarget]

\* the button, LED, TMC2209 and full-resolution planner state of a
\* specification that does not exercise them
ButtonIdle == [pin |-> "High", pc |-> "wait_low", elapsed |-> 0]
NoHeld == [task |-> [b \in {"home", "raise", "lower", "bottom"} |-> ButtonIdle],
           edges |-> 0]
NoTmc == [ifcnt |-> <<None, None, None, None>>, chip |-> <<0, 0, 0, 0>>,
          present0 |-> {}, op |-> "new", slave |-> 0, sent |-> 0,
          accepted |-> FALSE, reply |-> "-", ret |-> "Ok", calls |-> 0]
NoRr == [phase |-> "idle"]
NoRp == [phase |-> "idle"]
OthersIdle ==
    /\ held = NoHeld
    /\ led = "waiting"
    /\ tmc = NoTmc
    /\ rr = NoRr
    /\ rp = NoRp

\* the dispatcher variables' values while only the planner client of Part 1 runs
DispatcherIdle ==
    /\ LAST_COMMAND = NoCmd
    /\ CURRENT_POS = None
    /\ CONFIRM_SIGNAL = FALSE
    /\ ERROR_SIGNAL = "none"
    /\ nvs = None
    /\ mpc = "boot"
    /\ cur = "boot"
    /\ step_pin = "Low"
    /\ dir_pin = "Low"
    /\ buttons = [b \in {"home", "raise", "lower", "bottom"} |-> "idle"]
    /\ sig_count = 0
    /\ exec_log = <<>>
    /\ superseded = {}
    /\ stop_signaled = FALSE
    /\ cur_pct = 0
    /\ io = <<"-", "-">>
    /\ mq = "up"
    /\ payload = NoPublish
    /\ calc = NoCalc
    /\ OthersIdle

-----------------------------------------------------------------------------
(* Specification PlannerSpec: a client of the planner library.  A Stepper   *)
(* is built from one of the configurations; the client then builds plans,   *)
(* polls them, drops them, and changes the travel limit between plans.      *)

PlannerInit ==
    /\ \E tl \in TravelLimits, c \in Configs, d \in Direction :
          stepper = StepperNew(tl, c[1], c[2], c[3], d)
    /\ plan = NoPlan
    /\ ret = NoRet
    /\ emitted = 0
    /\ start_pos = None
    /\ target = None
    /\ panicked = FALSE
    /\ overflow_checks \in BOOLEAN
    /\ DispatcherIdle

Idle == ~panicked /\ plan.kind = "none"

\* Apply the outcome of an Iterator::next call
ApplyNext(r) ==
    /\ stepper' = r.stepper
    /\ plan' = r.plan
    /\ ret' = r.ret
    /\ panicked' = r.panic
    /\ emitted' = IF r.ret.tag = "Some" THEN emitted + 1 ELSE emitted
    /\ UNCHANGED <<start_pos, target, overflow_checks>>
    /\ UNCHANGED dvars

\* Apply the outcome of a plan constructor
ApplyCall(r, t) ==
    /\ plan' = r.plan
    /\ ret' = r.ret
    /\ emitted' = 0
    /\ start_pos' = stepper.curent_pos
    /\ target' = t
    /\ UNCHANGED <<stepper, panicked, overflow_checks>>
    /\ UNCHANGED dvars

HomingCall ==
    /\ Idle
    /\ ApplyCall(homing_move(stepper), None)

HomingNext ==
    /\ ~panicked
    /\ plan.kind = "homing"
    /\ \E endstop \in BOOLEAN :
          /\ endstop \/ plan.steps_moved < MaxEmitted
          /\ ApplyNext(HomingMove_next(stepper, plan, endstop))

PlannedCall ==
    /\ Idle
    /\ \E t \in 0..(MaxTravel + 1) : ApplyCall(planned_move(stepper, t), t)

PlannedNext ==
    /\ ~panicked
    /\ plan.kind = "planned"
    /\ emitted < MaxEmitted
    /\ ApplyNext(PlannedMove_next(stepper, plan, overflow_checks))

JogCall ==
    /\ Idle
    /\ \E d \in Direction : ApplyCall(continuous_jog(stepper, d), None)

JogNext ==
    /\ ~panicked
    /\ plan.kind = "jog"
    /\ \E continue \in BOOLEAN :
          /\ continue => (stepper.curent_pos < MaxPos /\ emitted < MaxEmitted)
          /\ ApplyNext(ContinuousJog_next(stepper, plan, continue))

\* The plan iterator is dropped, releasing its borrow of the Stepper
DropPlan ==
    /\ ~panicked
    /\ plan.kind # "none"
    /\ plan' = NoPlan
    /\ ret' = NoRet
    /\ emitted' = 0
    /\ start_pos' = None
    /\ target' = None
    /\ UNCHANGED <<stepper, panicked, overflow_checks>>
    /\ UNCHANGED dvars

SetTravelLimit ==
    /\ Idle
    /\ \E tl \in TravelLimits : stepper' = set_travel_limit(stepper, tl)
    /\ ret' = NoRet
    /\ emitted' = 0
    /\ start_pos' = None
    /\ target' = None
    /\ UNCHANGED <<plan, panicked, overflow_checks>>
    /\ UNCHANGED dvars

PlannerNext ==
    \/ HomingCall
    \/ HomingNext
    \/ PlannedCall
    \/ PlannedNext
    \/ JogCall
    \/ JogNext
    \/ DropPlan
    \/ SetTravelLimit

PlannerSpec == PlannerInit /\ [][PlannerNext]_vars

-----------------------------------------------------------------------------
(* Specification DispatchSpec: motor_task (motor.rs) on the high priority   *)
(* executor, the four button tasks (main.rs 358-418) and the MQTT ingress   *)
(* (mqtt.rs 179-195) on the main executor.  motor_task runs from one await  *)
(* to the next in one action; the main executor's tasks run only while      *)
(* motor_task is suspended at a timer or at LAST_COMMAND.wait().            *)

DispatchInit ==
    /\ stepper = [curent_pos |-> None, travel_limit |-> DEFAULT_TRAVEL_LIMIT]
    /\ plan = NoPlan
    /\ ret = NoRet
    /\ emitted = 0
    /\ start_pos = None
    /\ target = None
    /\ panicked = FALSE
    /\ overflow_checks = FALSE
    /\ LAST_COMMAND = NoCmd
    /\ CURRENT_POS = None
    /\ CONFIRM_SIGNAL = FALSE
    /\ ERROR_SIGNAL = "none"
    /\ nvs \in NvsInit
    /\ mpc = "boot"
    /\ cur = "boot"
    /\ step_pin = "Low"
    /\ dir_pin = "Low"
    /\ buttons = [b \in {"home", "raise", "lower", "bottom"} |-> "idle"]
    /\ sig_count = 0
    /\ exec_log = <<>>
    /\ superseded = {}
    /\ stop_signaled = FALSE
    /\ cur_pct = 0
    /\ io = <<"-", "-">>
    /\ mq = "up"
    /\ payload = NoPublish
    /\ calc = NoCalc
    /\ OthersIdle

\* execute_step_plan (motor.rs 199-210): one call of plan.next() and what
\* follows it up to the next await.  s, p, lc, conf: the Stepper, the plan,
\* LAST_COMMAND and CONFIRM_SIGNAL when next() is called; c: the command
\* being executed; em: delays this plan has yielded so far.
\* A delay: STEP goes high and the task waits 100 ns.  None: the plan is
\* dropped, the rest of the command's match arm runs, CURRENT_POS is
\* signaled (motor.rs 137-143) and the task is back at LAST_COMMAND.wait().
PollPlan(s, p, lc, conf, c, em) ==
    \E endstop \in BOOLEAN :
        LET pred == jog_continue_fn(lc)
            r == CASE p.kind = "homing" -> HomingMove_next(s, p, endstop)
                   [] p.kind = "planned" -> PlannedMove_next(s, p, overflow_checks)
                   [] p.kind = "jog" -> ContinuousJog_next(s, p, pred.continue)
            more == ~r.panic /\ r.ret.tag = "Some"
        IN /\ p.kind = "homing" => (endstop \/ p.steps_moved < MaxHomeSteps)
           /\ p.kind # "homing" => endstop
           /\ (p.kind = "jog" /\ pred.continue) =>
                  (s.curent_pos < DispMaxPos /\ em < DispMaxPos)
           /\ p.kind = "planned" => em < MaxEmitted
           /\ stepper' = r.stepper
           /\ ret' = r.ret
           /\ panicked' = r.panic
           /\ LAST_COMMAND' = predicate_slot(p, lc)
           /\ plan' = IF more \/ r.panic THEN r.plan ELSE NoPlan
           /\ emitted' = IF more THEN em + 1 ELSE em
           /\ step_pin' = IF more THEN "High" ELSE step_pin
           /\ mpc' = IF r.panic THEN "panicked" ELSE IF more THEN "high" ELSE "wait"
           /\ cur' = IF more \/ r.panic THEN c ELSE "none"
           /\ stop_signaled' = IF more /\ p.kind = "jog" THEN stop_signaled ELSE FALSE
           /\ CONFIRM_SIGNAL' = IF ~more /\ ~r.panic /\ c = "Home" THEN TRUE ELSE conf
           /\ CURRENT_POS' = IF ~more /\ ~r.panic /\ c # "boot"
                                THEN position_percent(r.stepper)
                                ELSE CURRENT_POS

\* a boot whose fallback travel limit is 0
boot_travel_limit_zero(found, stored) == IF found THEN stored ELSE 0

\* a boot that ignores the stored travel limit
boot_travel_limit_default(found, stored) == DEFAULT_TRAVEL_LIMIT

\* the value of the match on fetch_item's result (motor.rs 49-81)
boot_travel_limit(found, stored) == IF found THEN stored ELSE DEFAULT_TRAVEL_LIMIT

\* motor_task from its start to the first await of the boot homing move
\* (motor.rs 48-84).  rd, wr: outcome of fetch_item and of store_item.
MotorBoot ==
    /\ mpc = "boot"
    /\ \E rd \in {"ok", "err"}, wr \in {"ok", "err"} :
        LET found == rd = "ok" /\ nvs # None
            absent == rd = "ok" /\ nvs = None
            tl == boot_travel_limit(found, nvs)
            s == StepperNew(tl, MAX_VEL, MAX_ACCEL, START_VEL, "ToHome")
            conf == found \/ (absent /\ wr = "ok")
        IN /\ absent \/ wr = "ok"
           /\ nvs' = IF absent /\ wr = "ok" THEN DEFAULT_TRAVEL_LIMIT ELSE nvs
           /\ io' = <<rd, IF absent THEN wr ELSE "-">>
           /\ ERROR_SIGNAL' = IF rd = "err" \/ (absent /\ wr = "err")
                                 THEN "Hard" ELSE ERROR_SIGNAL
           /\ dir_pin' = DIR_TO_HOME
           /\ IF found /\ nvs = 0
                 THEN \* NonZeroU32::new(l).unwrap()
                      /\ panicked' = TRUE
                      /\ mpc' = "panicked"
                      /\ UNCHANGED <<stepper, plan, ret, emitted, LAST_COMMAND,
                                     CURRENT_POS, CONFIRM_SIGNAL, cur, step_pin,
                                     stop_signaled>>
                 ELSE PollPlan(s, homing_move(s).plan, LAST_COMMAND, conf, "boot", 0)
    /\ UNCHANGED <<start_pos, target, overflow_checks, buttons, sig_count,
                   exec_log, superseded, cur_pct, xvars>>

\* the end of a match arm that does not signal the position
ArmDoneSilent(s) ==
    /\ CURRENT_POS' = CURRENT_POS
    /\ mpc' = "wait"
    /\ cur' = "none"
    /\ LAST_COMMAND' = NoCmd
    /\ UNCHANGED <<plan, emitted, step_pin, dir_pin, panicked, stop_signaled>>

\* the code after a match arm that started no plan: CURRENT_POS.signal and
\* back to LAST_COMMAND.wait()
ArmDone(s) ==
    /\ CURRENT_POS' = position_percent(s)
    /\ mpc' = "wait"
    /\ cur' = "none"
    /\ LAST_COMMAND' = NoCmd
    /\ UNCHANGED <<plan, emitted, step_pin, dir_pin, panicked, stop_signaled>>

\* Command::Home (motor.rs 87-92, 147-156)
ExecHome ==
    /\ dir_pin' = DIR_TO_HOME
    /\ PollPlan(stepper, homing_move(stepper).plan, NoCmd, CONFIRM_SIGNAL, "Home", 0)
    /\ start_pos' = stepper.curent_pos
    /\ target' = None
    /\ UNCHANGED <<ERROR_SIGNAL, nvs>>

\* Command::StartJog (motor.rs 93-102, 175-197)
ExecStartJog(dir) ==
    LET r == continuous_jog(stepper, dir)
    IN /\ start_pos' = stepper.curent_pos
       /\ target' = None
       /\ nvs' = nvs
       /\ IF r.ret.tag = "Err"
             THEN /\ ERROR_SIGNAL' = "Soft"
                  /\ ret' = r.ret
                  /\ ArmDone(stepper)
                  /\ UNCHANGED <<stepper, CONFIRM_SIGNAL>>
             ELSE /\ dir_pin' = IF dir = "ToHome" THEN DIR_TO_HOME
                                                 ELSE not_level(DIR_TO_HOME)
                  /\ PollPlan(stepper, r.plan, NoCmd, CONFIRM_SIGNAL, "StartJog", 0)
                  /\ ERROR_SIGNAL' = ERROR_SIGNAL

\* Command::StopJog (motor.rs 103)
ExecStopJog ==
    /\ ArmDone(stepper)
    /\ UNCHANGED <<stepper, ret, start_pos, target, ERROR_SIGNAL, CONFIRM_SIGNAL, nvs>>

\* NonZeroU32::new(pos).unwrap_or(NonZeroU32::MIN) (motor.rs 107)
nonzero_or_min(p) == IF p = 0 THEN 1 ELSE p

\* Command::SetBottom (motor.rs 104-123).  wr: outcome of store_item
ExecSetBottom ==
    /\ \E wr \in {"ok", "err"} :
        IF pos(stepper) # None
           THEN LET p == nonzero_or_min(pos(stepper))
                    s == set_travel_limit(stepper, p)
                IN /\ stepper' = s
                   /\ nvs' = IF wr = "ok" THEN p ELSE nvs
                   /\ io' = <<"-", wr>>
                   /\ CONFIRM_SIGNAL' = IF wr = "ok" THEN TRUE ELSE CONFIRM_SIGNAL
                   /\ ERROR_SIGNAL' = IF wr = "ok" THEN ERROR_SIGNAL ELSE "Hard"
                   /\ ArmDone(s)
           ELSE /\ wr = "ok"
                /\ io' = <<"-", "-">>
                /\ ERROR_SIGNAL' = "Soft"
                /\ ArmDone(stepper)
                /\ UNCHANGED <<stepper, nvs, CONFIRM_SIGNAL>>
    /\ UNCHANGED <<ret, start_pos, target>>

\* (percent as u32 * travel_limit) / 100 (motor.rs 126) in the scaled
\* arithmetic of the dispatcher model, where u32 ends at U32_MAX.  A negative
\* i8 percent -k becomes U32_MAX + 1 - k; its product with a travel_limit
\* above 1 overflows: a panic with overflow checks, the wrapped product
\* U32_MAX + 1 - k * travel_limit without.
move_target(percent, tl, checks) ==
    IF percent >= 0
       THEN [panic |-> FALSE, target |-> (percent * tl) \div 100]
       ELSE IF tl > 1 /\ checks
               THEN [panic |-> TRUE, target |-> 0]
               ELSE [panic |-> FALSE,
                     target |-> ((U32_MAX - (0 - percent) * tl) + 1) \div 100]

\* a variant that reports a refused move as a Hard error
ExecMoveToPosHard(percent) ==
    LET m == move_target(percent, stepper.travel_limit, overflow_checks)
        target_pos == m.target
        r == planned_move(stepper, target_pos)
    IN /\ start_pos' = stepper.curent_pos
       /\ target' = target_pos
       /\ nvs' = nvs
       /\ IF m.panic
             THEN /\ panicked' = TRUE
                  /\ mpc' = "panicked"
                  /\ cur' = "MoveToPos"
                  /\ LAST_COMMAND' = NoCmd
                  /\ UNCHANGED <<stepper, plan, ret, emitted, CURRENT_POS,
                                 CONFIRM_SIGNAL, ERROR_SIGNAL, step_pin, dir_pin,
                                 stop_signaled>>
          ELSE IF r.ret.tag = "Err"
             THEN /\ ERROR_SIGNAL' = "Hard"
                  /\ ret' = r.ret
                  /\ ArmDone(stepper)
                  /\ UNCHANGED <<stepper, CONFIRM_SIGNAL>>
             ELSE /\ dir_pin' = IF r.ret.dir = "ToHome" THEN DIR_TO_HOME
                                                       ELSE not_level(DIR_TO_HOME)
                  /\ PollPlan(stepper, r.plan, NoCmd, CONFIRM_SIGNAL, "MoveToPos", 0)
                  /\ ERROR_SIGNAL' = ERROR_SIGNAL

\* Command::MoveToPos (motor.rs 124-135, 158-173)
ExecMoveToPos(percent) ==
    LET m == move_target(percent, stepper.travel_limit, overflow_checks)
        target_pos == m.target
        r == planned_move(stepper, target_pos)
    IN /\ start_pos' = stepper.curent_pos
       /\ target' = target_pos
       /\ nvs' = nvs
       /\ IF m.panic
             THEN /\ panicked' = TRUE
                  /\ mpc' = "panicked"
                  /\ cur' = "MoveToPos"
                  /\ LAST_COMMAND' = NoCmd
                  /\ UNCHANGED <<stepper, plan, ret, emitted, CURRENT_POS,
                                 CONFIRM_SIGNAL, ERROR_SIGNAL, step_pin, dir_pin,
                                 stop_signaled>>
          ELSE IF r.ret.tag = "Err"
             THEN /\ ERROR_SIGNAL' = "Soft"
                  /\ ret' = r.ret
                  /\ ArmDone(stepper)
                  /\ UNCHANGED <<stepper, CONFIRM_SIGNAL>>
             ELSE /\ dir_pin' = IF r.ret.dir = "ToHome" THEN DIR_TO_HOME
                                                       ELSE not_level(DIR_TO_HOME)
                  /\ PollPlan(stepper, r.plan, NoCmd, CONFIRM_SIGNAL, "MoveToPos", 0)
                  /\ ERROR_SIGNAL' = ERROR_SIGNAL

\* LAST_COMMAND.wait() returns (motor.rs 86): the pending command is taken and
\* its match arm runs to its first await
MotorTake ==
    /\ mpc = "wait"
    /\ LAST_COMMAND.cmd # "none"
    /\ LET c == take(LAST_COMMAND).val
       IN /\ exec_log' = Append(exec_log, c.id)
          /\ c.cmd # "SetBottom" => io' = <<"-", "-">>
          /\ CASE c.cmd = "Home" -> ExecHome
               [] c.cmd = "StartJog" -> ExecStartJog(c.dir)
               [] c.cmd = "StopJog" -> ExecStopJog
               [] c.cmd = "SetBottom" -> ExecSetBottom
               [] c.cmd = "MoveToPos" -> ExecMoveToPos(c.pct)
    /\ cur_pct' = LAST_COMMAND.pct
    /\ UNCHANGED <<overflow_checks, buttons, sig_count, superseded, xvars>>

\* a pulse whose low edge is forgotten
MotorPulseStaysHigh ==
    /\ mpc = "high"
    /\ step_pin' = step_pin
    /\ mpc' = "delay"
    /\ UNCHANGED <<pvars, LAST_COMMAND, CURRENT_POS, CONFIRM_SIGNAL, ERROR_SIGNAL,
                   nvs, cur, dir_pin, buttons, sig_count, exec_log, superseded,
                   stop_signaled, cur_pct, io, xvars>>

\* Timer::after_nanos(100) elapses: STEP goes low, the task waits for the
\* step's deadline (motor.rs 206-208)
MotorPulseLow ==
    /\ mpc = "high"
    /\ step_pin' = "Low"
    /\ mpc' = "delay"
    /\ UNCHANGED <<pvars, LAST_COMMAND, CURRENT_POS, CONFIRM_SIGNAL, ERROR_SIGNAL,
                   nvs, cur, dir_pin, buttons, sig_count, exec_log, superseded,
                   stop_signaled, cur_pct, io, xvars>>

\* Timer::at(now + delay) elapses: the loop of execute_step_plan polls the plan
MotorNextStep ==
    /\ mpc = "delay"
    /\ PollPlan(stepper, plan, LAST_COMMAND, CONFIRM_SIGNAL, cur, emitted)
    /\ UNCHANGED <<start_pos, target, overflow_checks, ERROR_SIGNAL, nvs, dir_pin,
                   buttons, sig_count, exec_log, superseded, cur_pct, io, xvars>>

\* The main executor runs only while motor_task is suspended
MainRuns ==
    \/ mpc \in {"high", "delay"}
    \/ mpc = "wait" /\ LAST_COMMAND.cmd = "none"

\* LAST_COMMAND.signal(c) by an input task; b, st: the task's button and its
\* state after the call
Signal(c, b, st) ==
    /\ MainRuns
    /\ sig_count < MaxSignals
    /\ sig_count' = sig_count + 1
    /\ LAST_COMMAND' = signal(LAST_COMMAND, [c EXCEPT !.id = sig_count + 1])
    /\ superseded' = IF LAST_COMMAND.cmd # "none"
                        THEN superseded \cup {LAST_COMMAND.id}
                        ELSE superseded
    /\ stop_signaled' = (stop_signaled \/ (c.cmd = "StopJog" /\ plan.kind = "jog"))
    /\ buttons' = IF b = "mqtt" THEN buttons ELSE [buttons EXCEPT ![b] = st]
    /\ UNCHANGED <<pvars, CURRENT_POS, CONFIRM_SIGNAL, ERROR_SIGNAL, nvs, mpc, cur,
                   step_pin, dir_pin, exec_log, cur_pct, io, calc, ovars>>

\* a button goes low without a command being signaled (Home, Bottom)
Press(b) ==
    /\ MainRuns
    /\ buttons[b] = "idle"
    /\ buttons' = [buttons EXCEPT ![b] = "pressed"]
    /\ UNCHANGED <<pvars, LAST_COMMAND, CURRENT_POS, CONFIRM_SIGNAL, ERROR_SIGNAL,
                   nvs, mpc, cur, step_pin, dir_pin, sig_count, exec_log, superseded,
                   stop_signaled, cur_pct, io, xvars>>

\* home_button_task (main.rs 358-374)
HomePress == Press("home")

HomeRelease ==
    /\ buttons["home"] = "pressed"
    /\ \E long \in BOOLEAN :
          Signal(IF long THEN Home ELSE MoveToPos(0), "home", "idle")
    /\ UNCHANGED <<mq, payload, held>>

\* raise_button_task (main.rs 376-387)
RaisePress ==
    /\ buttons["raise"] = "idle"
    /\ Signal(StartJog("ToHome"), "raise", "pressed")
    /\ UNCHANGED <<mq, payload, held>>

RaiseRelease ==
    /\ buttons["raise"] = "pressed"
    /\ Signal(StopJog, "raise", "idle")
    /\ UNCHANGED <<mq, payload, held>>

\* lower_button_task (main.rs 389-400)
LowerPress ==
    /\ buttons["lower"] = "idle"
    /\ Signal(StartJog("AwayFromHome"), "lower", "pressed")
    /\ UNCHANGED <<mq, payload, held>>

LowerRelease ==
    /\ buttons["lower"] = "pressed"
    /\ Signal(StopJog, "lower", "idle")
    /\ UNCHANGED <<mq, payload, held>>

\* bottom_button_task (main.rs 402-418)
BottomPress == Press("bottom")

BottomRelease ==
    /\ buttons["bottom"] = "pressed"
    /\ \E long \in BOOLEAN :
          Signal(IF long THEN SetBottom ELSE MoveToPos(100), "bottom", "idle")
    /\ UNCHANGED <<mq, payload, held>>

\* mqtt_task handles a publish (mqtt.rs 179-195): on the command topic a
\* payload that is UTF-8 and parses as i8 is signaled as MoveToPos; any other
\* payload is logged and the session loop is left (break), after which the
\* client is aborted and the outer loop starts over (mqtt.rs 214-217).  A
\* publish on another topic is ignored.
MqttReceive(topic, bytes) ==
    /\ mq = "up"
    /\ MainRuns
    /\ payload' = [topic |-> topic, bytes |-> bytes]
    /\ LET n == parse_i8(bytes)
       IN IF topic # "command"
             THEN /\ mq' = mq
                  /\ UNCHANGED <<pvars, LAST_COMMAND, CURRENT_POS, CONFIRM_SIGNAL,
                                 ERROR_SIGNAL, nvs, mpc, cur, step_pin, dir_pin,
                                 buttons, sig_count, exec_log, superseded,
                                 stop_signaled, cur_pct, io, calc, held, ovars>>
             ELSE IF from_utf8_ok(bytes) /\ n.ok
                     THEN /\ Signal(MoveToPos(n.val), "mqtt", "idle")
                          /\ mq' = mq
                          /\ held' = held
                     ELSE /\ mq' = "down"
                          /\ UNCHANGED <<pvars, LAST_COMMAND, CURRENT_POS,
                                         CONFIRM_SIGNAL, ERROR_SIGNAL, nvs, mpc, cur,
                                         step_pin, dir_pin, buttons, sig_count,
                                         exec_log, superseded, stop_signaled,
                                         cur_pct, io, calc, held, ovars>>

\* a publish on the command topic arrives while the buttons are in use
MqttCommand ==
    \E b \in DispatchPayloads : MqttReceive("command", b)

DispatchNext ==
    \/ MotorBoot
    \/ MotorTake
    \/ MotorPulseLow
    \/ MotorNextStep
    \/ HomePress
    \/ HomeRelease
    \/ RaisePress
    \/ RaiseRelease
    \/ LowerPress
    \/ LowerRelease
    \/ BottomPress
    \/ BottomRelease
    \/ MqttCommand

DispatchSpec == DispatchInit /\ [][DispatchNext]_vars

-----------------------------------------------------------------------------
(* Specification IngressSpec: motor_task together with mqtt_task (mqtt.rs    *)
(* 37-219): the session is set up, publishes are handled, positions are      *)
(* published, and the session is torn down and set up again after an error.  *)

IngressInit ==
    /\ stepper = [curent_pos |-> None, travel_limit |-> DEFAULT_TRAVEL_LIMIT]
    /\ plan = NoPlan
    /\ ret = NoRet
    /\ emitted = 0
    /\ start_pos = None
    /\ target = None
    /\ panicked = FALSE
    /\ overflow_checks \in BOOLEAN
    /\ LAST_COMMAND = NoCmd
    /\ CURRENT_POS = None
    /\ CONFIRM_SIGNAL = FALSE
    /\ ERROR_SIGNAL = "none"
    /\ nvs \in NvsInit
    /\ mpc = "boot"
    /\ cur = "boot"
    /\ step_pin = "Low"
    /\ dir_pin = "Low"
    /\ buttons = [b \in {"home", "raise", "lower", "bottom"} |-> "idle"]
    /\ sig_count = 0
    /\ exec_log = <<>>
    /\ superseded = {}
    /\ stop_signaled = FALSE
    /\ cur_pct = 0
    /\ io = <<"-", "-">>
    /\ mq = "down"
    /\ payload = NoPublish
    /\ calc = NoCalc
    /\ OthersIdle

\* what mqtt_task leaves alone when it only changes its own session
MqttOnly ==
    UNCHANGED <<pvars, LAST_COMMAND, CONFIRM_SIGNAL, ERROR_SIGNAL, nvs, mpc, cur,
                step_pin, dir_pin, buttons, sig_count, exec_log, superseded,
                stop_signaled, cur_pct, io, calc, held, ovars>>

\* the outer loop connects, subscribes and receives the Suback (mqtt.rs
\* 41-158); a failure on the way aborts and starts the loop over
MqttConnect ==
    /\ mq = "down"
    /\ MainRuns
    /\ mq' = "up"
    /\ payload' = NoPublish
    /\ CURRENT_POS' = CURRENT_POS
    /\ MqttOnly

\* a publish arrives in the session loop
MqttIngress ==
    \E e \in Publishes : MqttReceive(e[1], e[2])

\* CURRENT_POS.wait() wins the select (mqtt.rs 202-211): the value is taken
\* and published; a failed publish leaves the session loop
MqttPublishPos ==
    /\ mq = "up"
    /\ MainRuns
    /\ CURRENT_POS # None
    /\ CURRENT_POS' = None
    /\ \E ok \in BOOLEAN : mq' = IF ok THEN "up" ELSE "down"
    /\ payload' = NoPublish
    /\ MqttOnly

\* a failed ping, poll_header or poll_body leaves the session loop (mqtt.rs
\* 167-178, 197-200); client.abort() follows (mqtt.rs 214-217)
MqttSessionError ==
    /\ mq = "up"
    /\ MainRuns
    /\ mq' = "down"
    /\ payload' = NoPublish
    /\ CURRENT_POS' = CURRENT_POS
    /\ MqttOnly

IngressNext ==
    \/ MotorBoot
    \/ MotorTake
    \/ MotorPulseLow
    \/ MotorNextStep
    \/ MqttConnect
    \/ MqttIngress
    \/ MqttPublishPos
    \/ MqttSessionError

IngressSpec == IngressInit /\ [][IngressNext]_vars

-----------------------------------------------------------------------------
(* Specification CalcSpec: the target computation of MoveToPos (motor.rs     *)
(* 126) at the full width of u32.  A u32 is a pair <<hi, lo>> of 16-bit      *)
(* halves, so that the product percent * travel_limit and its wrap-around    *)
(* are computed exactly within TLC's integers.                               *)

HALF == 256 * 256

u32(hi, lo) == <<hi, lo>>

u32_le(x, y) == x[1] < y[1] \/ (x[1] = y[1] /\ x[2] <= y[2])

\* k * x for 0 <= k < 2^15: the wrapped u32 product and whether it overflowed
u32_mul_small(k, x) ==
    LET lo_p == k * x[2]
        hi_p == k * x[1] + (lo_p \div HALF)
    IN [overflow |-> hi_p >= HALF, val |-> u32(hi_p % HALF, lo_p % HALF)]

\* x / d for 0 < d < 2^15
u32_div_small(x, d) ==
    LET r == x[1] % d
    IN u32(x[1] \div d, (r * HALF + x[2]) \div d)

\* (percent as u32 * stepper.travel_limit().get()) / 100_u32 for a percent
\* in 0..=127: "panic" when the product overflows in a build with overflow
\* checks, the quotient of the wrapped product in a build without
move_target_u32(percent, tl, checks) ==
    LET p == u32_mul_small(percent, tl)
    IN IF p.overflow /\ checks
          THEN [panic |-> TRUE, overflow |-> TRUE, target |-> u32(0, 0)]
          ELSE [panic |-> FALSE, overflow |-> p.overflow,
                target |-> u32_div_small(p.val, 100)]

CalcPercents == {0, 1, 50, 99, 100}

\* travel limits from 1 to u32::MAX, among them 42_949_672 = <<655, 23592>>,
\* the largest whose hundredfold fits in u32
CalcLimits ==
    { u32(0, 1), u32(0, 2), u32(0, 3), u32(0, 99), u32(0, 100), u32(0, 2048),
      u32(0, 65535), u32(1, 0), u32(655, 23592), u32(655, 23593), u32(1000, 0),
      u32(32768, 0), u32(65535, 65535) }

CalcInit ==
    /\ calc \in [pct : CalcPercents, tl : CalcLimits, done : {FALSE}, out : {NoTarget}]
    /\ overflow_checks \in BOOLEAN
    /\ stepper = [curent_pos |-> None, travel_limit |-> DEFAULT_TRAVEL_LIMIT]
    /\ plan = NoPlan
    /\ ret = NoRet
    /\ emitted = 0
    /\ start_pos = None
    /\ target = None
    /\ panicked = FALSE
    /\ LAST_COMMAND = NoCmd
    /\ CURRENT_POS = None
    /\ CONFIRM_SIGNAL = FALSE
    /\ ERROR_SIGNAL = "none"
    /\ nvs = None
    /\ mpc = "boot"
    /\ cur = "boot"
    /\ step_pin = "Low"
    /\ dir_pin = "Low"
    /\ buttons = [b \in {"home", "raise", "lower", "bottom"} |-> "idle"]
    /\ sig_count = 0
    /\ exec_log = <<>>
    /\ superseded = {}
    /\ stop_signaled = FALSE
    /\ cur_pct = 0
    /\ io = <<"-", "-">>
    /\ mq = "up"
    /\ payload = NoPublish
    /\ OthersIdle

\* the dispatcher computes the target of MoveToPos(calc.pct)
CalcTarget ==
    /\ ~calc.done
    /\ calc' = [calc EXCEPT !.done = TRUE,
                            !.out = move_target_u32(calc.pct, calc.tl, overflow_checks)]
    /\ UNCHANGED <<pvars, LAST_COMMAND, CURRENT_POS, CONFIRM_SIGNAL, ERROR_SIGNAL,
                   nvs, mpc, cur, step_pin, dir_pin, buttons, sig_count, exec_log,
                   superseded, stop_signaled, cur_pct, io, mq, payload, held, ovars>>

CalcNext == CalcTarget

CalcSpec == CalcInit /\ [][CalcNext]_vars

-----------------------------------------------------------------------------
(* Properties of the planner, checked under PlannerSpec *)

Distance == abs_diff(start_pos, target)

\* C1 (as claimed): polling the sequence of planned_move(target_pos) until it
\* ends yields exactly |start_pos - target_pos| delays and leaves the position
\* at target_pos; the sequence never panics and never yields more than that.
C1_PlannedMoveStepCount ==
    plan.kind = "planned" =>
        /\ ~panicked
        /\ emitted <= Distance
        /\ ret = RetNone => (emitted = Distance /\ pos(stepper) = target)

\* C2 (as claimed): every delay a planned_move sequence yields lies in
\* [cruise_delay, inital_delay].
C2_DelayEnvelope ==
    (plan.kind = "planned" /\ ret.tag = "Some") =>
        (stepper.cruise_delay <= ret.val /\ ret.val <= stepper.inital_delay)

\* C3: planned_move fails with NotHomed when the position is unknown and with
\* MoveOutOfBounds when homed and target > travel_limit; a failed call yields
\* no plan (so no delay) and leaves every Stepper field as it was; a target
\* equal to travel_limit is accepted.
C3_PlannedMoveGuards ==
    [][ (Idle /\ target' # None) =>
          /\ stepper' = stepper
          /\ stepper.curent_pos = None =>
                (ret' = Err("NotHomed") /\ plan' = NoPlan /\ emitted' = 0)
          /\ (stepper.curent_pos # None /\ target' > stepper.travel_limit) =>
                (ret' = Err("MoveOutOfBounds") /\ plan' = NoPlan /\ emitted' = 0)
          /\ (stepper.curent_pos # None /\ target' <= stepper.travel_limit) =>
                (ret'.tag = "Ok" /\ plan'.kind = "planned"
                 /\ plan'.steps_to_travel = abs_diff(stepper.curent_pos, target'))
      ]_vars

C3_Witness ==
    /\ plan = NoPlan
    /\ ret = Err("MoveOutOfBounds")
    /\ start_pos # None
    /\ target = stepper.travel_limit + 1

\* C4: a poll of a homing_move sequence on which the endstop reads false
\* yields a delay and leaves the position as it was; the poll on which the
\* endstop reads true sets the position to Some(0) and ends the sequence
\* without yielding a delay; the position changes on no other poll.
C4_HomingPosition ==
    [][ (plan.kind = "homing" /\ plan'.kind = "homing") =>
          /\ ret'.tag \in {"Some", "None"}
          /\ ret'.tag = "Some" =>
                (stepper' = stepper /\ emitted' = emitted + 1)
          /\ ret'.tag = "None" =>
                (stepper'.curent_pos = 0 /\ emitted' = emitted
                 /\ plan'.steps_moved = plan.steps_moved)
      ]_vars

C4_Witness ==
    /\ plan.kind = "homing"
    /\ ret = RetNone
    /\ start_pos = None
    /\ emitted = 2
    /\ stepper.curent_pos = 0

\* C6 (as claimed): planned_move returns the home direction exactly when the
\* target is nearer to home than the position (target < position) and the
\* opposite direction exactly when target > position.
C6_DirectionTowardTarget ==
    (plan.kind = "planned" /\ ret.tag = "Ok") =>
        /\ target < start_pos => ret.dir = stepper.dir_to_home
        /\ target > start_pos => ret.dir = opposite(stepper.dir_to_home)

\* C7 (as claimed): each step of a continuous_jog in the home direction
\* decreases the position by one, saturating at 0, and each step of a jog in
\* the other direction increases it by one.
C7_JogStepDirection ==
    [][ (plan.kind = "jog" /\ plan'.kind = "jog" /\ emitted' = emitted + 1) =>
          IF plan.dir = stepper.dir_to_home
             THEN stepper'.curent_pos = saturating_sub(stepper.curent_pos, 1)
             ELSE stepper'.curent_pos = stepper.curent_pos + 1
      ]_vars

\* C5 (as claimed): once homed, the position stays within [0, travel_limit]
\* whatever planner calls (homing_move, planned_move, continuous_jog,
\* set_travel_limit) are made.
C5_PositionInRange ==
    pos(stepper) # None => (0 <= pos(stepper) /\ pos(stepper) <= stepper.travel_limit)

-----------------------------------------------------------------------------
(* Properties of the dispatcher, checked under DispatchSpec *)

Executed == {exec_log[i] : i \in 1..Len(exec_log)}

\* C8: LAST_COMMAND is a single-slot latest-wins signal: a pending command
\* is always the most recently signaled one; a command replaced before
\* anything took it is never executed; the dispatcher executes commands in
\* the order they were signaled and each at most once.
C8_LatestWins ==
    /\ LAST_COMMAND.cmd # "none" => LAST_COMMAND.id = sig_count
    /\ Executed \cap superseded = {}
    /\ \A i, j \in 1..Len(exec_log) : i < j => exec_log[i] < exec_log[j]

\* two commands signaled before the dispatcher took one; it executed the later
C8_Witness ==
    \E i \in superseded : (i + 1) \in Executed

\* the step on which execute_step_plan polls a jog plan after a step's delay
JogPoll == mpc = "delay" /\ plan.kind = "jog" /\ mpc' # "delay"

JogEnds == mpc' = "wait" /\ plan' = NoPlan /\ step_pin' = "Low" /\ stepper' = stepper

\* C9 (as claimed): once StopJog has been signaled during a jog, the next
\* evaluation of the continuation predicate ends the jog (no further pulse)
\* and the dispatcher is back waiting for commands, whatever the other input
\* tasks signal in between.
C9_StopJogEndsJog ==
    [][ (JogPoll /\ stop_signaled) => JogEnds ]_vars

\* C10 (as claimed): any command pending on LAST_COMMAND when the jog
\* continuation predicate is evaluated ends the jog at that step boundary.
C10_AnyCommandEndsJog ==
    [][ (JogPoll /\ LAST_COMMAND.cmd # "none") => JogEnds ]_vars

\* C10 (amended): a command pending on LAST_COMMAND when the jog continuation
\* predicate is evaluated is taken from the signal by the predicate; the jog
\* ends at that step boundary exactly when the command is StopJog; with any
\* other command, or none, the jog goes on with its next step.
C10_OnlyStopJogEndsJog ==
    [][ JogPoll =>
          /\ LAST_COMMAND' = NoCmd
          /\ LAST_COMMAND.cmd = "StopJog" => JogEnds
          /\ LAST_COMMAND.cmd # "StopJog" =>
                (mpc' = "high" /\ plan' = plan /\ step_pin' = "High"
                 /\ stepper' = update_pos_one_step(stepper, plan.dir))
      ]_vars

\* a command other than StopJog was signaled during the jog being executed,
\* was taken by the continuation predicate, and the jog is still stepping
C10_Witness ==
    /\ cur = "StartJog"
    /\ mpc = "high"
    /\ LAST_COMMAND = NoCmd
    /\ Len(exec_log) > 0
    /\ sig_count > exec_log[Len(exec_log)]
    /\ sig_count \notin superseded

\* C11 (as claimed): the jog continuation predicate only peeks: a pending
\* command other than StopJog is still in LAST_COMMAND after the predicate
\* has been evaluated (and so is executed once the jog has ended).
C11_PredicatePeeks ==
    [][ (JogPoll /\ LAST_COMMAND.cmd \notin {"none", "StopJog"})
            => LAST_COMMAND' = LAST_COMMAND ]_vars

\* a homing or planned move is being executed (between its first pulse and
\* the poll that ends it)
MoveRunning == mpc \in {"high", "delay"} /\ plan.kind \in {"homing", "planned"}

\* C12: a planned or homing move is not cut short by commands.  While the
\* move runs no command is taken or executed; a pending command stays
\* pending; a step that signals a command changes neither the Stepper, the
\* plan nor the count of delays emitted; and a poll of the move leaves
\* LAST_COMMAND as it was, so the plan runs to its own end and only then,
\* back at LAST_COMMAND.wait() with no plan, is the latest command taken.
C12_MoveNotCancellable ==
    [][ /\ MoveRunning =>
            /\ exec_log' = exec_log
            /\ LAST_COMMAND.cmd # "none" => LAST_COMMAND'.cmd # "none"
            /\ LAST_COMMAND' # LAST_COMMAND =>
                  /\ LAST_COMMAND'.id = sig_count'
                  /\ sig_count' = sig_count + 1
                  /\ <<stepper, plan, emitted, mpc, step_pin, dir_pin>>' =
                         <<stepper, plan, emitted, mpc, step_pin, dir_pin>>
            /\ mpc' = "wait" => (plan' = NoPlan /\ mpc = "delay" /\ ret' = RetNone)
        /\ exec_log' # exec_log => (mpc = "wait" /\ plan = NoPlan)
      ]_vars

\* a command signaled during a planned move is still pending after the move
\* has emitted two or more delays
C12_Witness ==
    /\ plan.kind = "planned"
    /\ mpc = "delay"
    /\ emitted >= 2
    /\ LAST_COMMAND.cmd # "none"
    /\ Len(exec_log) > 0
    /\ LAST_COMMAND.id > exec_log[Len(exec_log)]

\* motor_task takes command c with LAST_COMMAND.wait()
Takes(c) == mpc = "wait" /\ LAST_COMMAND.cmd = c /\ exec_log' # exec_log

Boots == mpc = "boot" /\ mpc' # "boot"

\* C14: at boot, with rd and wr the outcomes of the flash read and write:
\* a stored travel limit that is read is used and nothing is written; an
\* absent key makes the dispatcher write the default and use it; a failed
\* read, or a failed write of the default, signals Hard and the default is
\* used; without an I/O failure no error is signaled.  In every case the
\* dispatcher goes on to the boot homing move.
C14_BootTravelLimit ==
    [][ Boots =>
          LET rd == io'[1]
              wr == io'[2]
              tl == stepper'.travel_limit
          IN /\ (rd = "ok" /\ nvs # None) =>
                    (tl = nvs /\ nvs' = nvs /\ wr = "-" /\ ERROR_SIGNAL' = "none")
             /\ (rd = "ok" /\ nvs = None) =>
                    /\ wr \in {"ok", "err"}
                    /\ tl = DEFAULT_TRAVEL_LIMIT
                    /\ wr = "ok" => (nvs' = DEFAULT_TRAVEL_LIMIT /\ ERROR_SIGNAL' = "none")
                    /\ wr = "err" => (nvs' = None /\ ERROR_SIGNAL' = "Hard")
             /\ rd = "err" =>
                    /\ tl = DEFAULT_TRAVEL_LIMIT
                    /\ nvs' = nvs
                    /\ wr = "-"
                    /\ ERROR_SIGNAL' = "Hard"
             /\ rd \in {"ok", "err"}
             /\ ~panicked'
             /\ mpc' \in {"high", "wait"}
      ]_vars

\* a boot with an empty store and no I/O failure: the default is stored and
\* used and no error is signaled
C14_Witness ==
    /\ mpc # "boot"
    /\ exec_log = <<>>
    /\ io = <<"ok", "ok">>
    /\ nvs = DEFAULT_TRAVEL_LIMIT
    /\ stepper.travel_limit = DEFAULT_TRAVEL_LIMIT
    /\ ERROR_SIGNAL = "none"

\* C15: the travel limit in the store, if present, is nonzero, and so is the
\* travel limit in memory: the boot default and every SetBottom value
\* (SetBottom at position 0 included) are at least 1, so the conversion
\* NonZeroU32::new(l).unwrap() at boot never panics.
C15_StoredNonZero ==
    /\ nvs # None => nvs >= 1
    /\ mpc # "boot" => stepper.travel_limit >= 1
    /\ ~panicked

\* SetBottom at position 0 has stored 1
C15_Witness ==
    /\ pos(stepper) = 0
    /\ io = <<"-", "ok">>
    /\ nvs = 1
    /\ stepper.travel_limit = 1

(* Properties of the target computation, checked under CalcSpec *)

\* C16 (as claimed): for every percentage in 0..=100 and every nonzero u32
\* travel_limit the target of MoveToPos is computed without overflow, is at
\* most travel_limit (so the planned move is accepted), is 0 for percentage
\* 0 and travel_limit for percentage 100.
C16_TargetInRange ==
    calc.done =>
        /\ ~calc.out.panic
        /\ ~calc.out.overflow
        /\ u32_le(calc.out.target, calc.tl)
        /\ calc.pct = 0 => calc.out.target = u32(0, 0)
        /\ calc.pct = 100 => calc.out.target = calc.tl

(* Properties of the dispatcher, continued (DispatchSpec) *)

\* C17 (as claimed): every value signaled on CURRENT_POS is a percentage in
\* 0..=100, whatever commands were executed.
C17_PercentInRange ==
    CURRENT_POS # None => (0 <= CURRENT_POS /\ CURRENT_POS <= 100)

\* a MoveToPos(pct) ends without error: on the step that took it (nothing to
\* travel) or on a later poll of its plan
MoveDone(pct) ==
    /\ mpc' = "wait"
    /\ ret' = RetNone
    /\ \/ Takes("MoveToPos") /\ LAST_COMMAND.pct = pct
       \/ mpc = "delay" /\ cur = "MoveToPos" /\ cur_pct = pct

Accepted(bytes) == from_utf8_ok(bytes) /\ parse_i8(bytes).ok

\* C19 (as claimed): the ingress signals MoveToPos(n) only for a publish on
\* the command topic whose payload is the text of an integer n with
\* 0 <= n <= 100; an integer outside that range produces no command.
C19_PayloadRange ==
    [][ sig_count' # sig_count =>
          /\ payload'.topic = "command"
          /\ Accepted(payload'.bytes)
          /\ LAST_COMMAND' = [MoveToPos(parse_i8(payload'.bytes).val)
                                 EXCEPT !.id = sig_count']
          /\ 0 <= LAST_COMMAND'.pct /\ LAST_COMMAND'.pct <= 100
      ]_vars

\* mqtt_task handles a publish on the command topic whose payload is not
\* UTF-8 or not an integer
InvalidReceived ==
    mq = "up" /\ payload'.topic = "command" /\ ~Accepted(payload'.bytes)

\* C20 (as claimed): an invalid payload on the command topic signals Soft
\* on ERROR_SIGNAL, signals no command, and ends the MQTT session.
C20_InvalidPayload ==
    [][ InvalidReceived =>
          /\ ERROR_SIGNAL' = "Soft"
          /\ LAST_COMMAND' = LAST_COMMAND
          /\ sig_count' = sig_count
          /\ mq' = "down"
      ]_vars

-----------------------------------------------------------------------------
(* Part 5: the TMC2209 register interface (tmc2209.rs), at the level of whole *)
(* frames: what a call transmits, what the chip does with it, what it returns *)

\* calls made on one driver
MaxCalls == 3

\* the idle state of the planner and of the tasks, for the specifications that
\* exercise neither
PlannerIdle ==
    /\ overflow_checks = FALSE
    /\ stepper = [curent_pos |-> None, travel_limit |-> DEFAULT_TRAVEL_LIMIT]
    /\ plan = NoPlan
    /\ ret = NoRet
    /\ emitted = 0
    /\ start_pos = None
    /\ target = None
    /\ panicked = FALSE
TasksIdle ==
    /\ LAST_COMMAND = NoCmd
    /\ CURRENT_POS = None
    /\ CONFIRM_SIGNAL = FALSE
    /\ ERROR_SIGNAL = "none"
    /\ nvs = None
    /\ mpc = "boot"
    /\ cur = "boot"
    /\ step_pin = "Low"
    /\ dir_pin = "Low"
    /\ buttons = [b \in {"home", "raise", "lower", "bottom"} |-> "idle"]
    /\ sig_count = 0
    /\ exec_log = <<>>
    /\ superseded = {}
    /\ stop_signaled = FALSE
    /\ cur_pct = 0
    /\ io = <<"-", "-">>
    /\ mq = "up"
    /\ payload = NoPublish
    /\ calc = NoCalc

Slaves == 0 .. 3

\* u8::wrapping_add(1)
wrapping_add_1 == [x \in 0 .. 255 |-> (x + 1) % 256]

\* u32 as u8
as_u8(v) == v % 256

\* the ways read_register ends (tmc2209.rs 86-139)
ReadResults == {"Ok", "TxError", "RxError", "UnexpectedEos", "CrcMismatch",
                "UnexpectedAdress"}

\* addrs_present given to new: the one main.rs passes and one with two chips
AddrsPresent == { <<TRUE, FALSE, FALSE, FALSE>>, <<TRUE, FALSE, TRUE, FALSE>> }

\* IFCNT of a chip when the driver is constructed
ChipStart == {0, 254, 255}

\* Tmc2209::new after it returned Ok: every present slot holds the low byte of
\* the IFCNT it read from that chip, every other slot is None
Tmc2209New(present, chip) ==
    [ifcnt |-> [i \in 1 .. 4 |-> IF present[i] THEN as_u8(chip[i]) ELSE None],
     chip |-> chip,
     present0 |-> {a \in Slaves : present[a + 1]},
     op |-> "new", slave |-> 0, sent |-> 0, accepted |-> FALSE, reply |-> "-",
     ret |-> "Ok", calls |-> 0]

\* a variant that transmits the frame before it looks at the slot
write_register_unchecked_send_first(t, slave, tx_ok, accepts) ==
    LET s == [t EXCEPT !.op = "write_register_unchecked", !.slave = slave,
                       !.sent = 8, !.accepted = FALSE, !.reply = "-",
                       !.calls = t.calls + 1]
    IN IF t.ifcnt[slave + 1] # None
          THEN [s EXCEPT !.ifcnt[slave + 1] = wrapping_add_1[t.ifcnt[slave + 1]],
                         !.chip[slave + 1] = IF accepts
                                                THEN wrapping_add_1[t.chip[slave + 1]]
                                                ELSE t.chip[slave + 1],
                         !.accepted = accepts,
                         !.ret = "Ok"]
          ELSE [s EXCEPT !.ret = "UnpopulatedAdress"]

\* write_register_unchecked on driver t: tx_ok is whether write_all succeeds,
\* accepts whether the chip addressed takes the frame (and counts it in IFCNT)
write_register_unchecked(t, slave, tx_ok, accepts) ==
    LET s == [t EXCEPT !.op = "write_register_unchecked", !.slave = slave,
                       !.sent = 0, !.accepted = FALSE, !.reply = "-",
                       !.calls = t.calls + 1]
    IN IF t.ifcnt[slave + 1] # None
          THEN IF tx_ok
                  THEN [s EXCEPT !.sent = 8,
                                 !.ifcnt[slave + 1] = wrapping_add_1[t.ifcnt[slave + 1]],
                                 !.chip[slave + 1] = IF accepts
                                                        THEN wrapping_add_1[t.chip[slave + 1]]
                                                        ELSE t.chip[slave + 1],
                                 !.accepted = accepts,
                                 !.ret = "Ok"]
                  ELSE [s EXCEPT !.ret = "TxError"]
          ELSE [s EXCEPT !.ret = "UnpopulatedAdress"]

\* a variant that compares the shadow with the whole 32-bit reply
write_register_whole_reply(t, slave, tx_ok, accepts, res, hi) ==
    LET u == [write_register_unchecked(t, slave, tx_ok, accepts)
                 EXCEPT !.op = "write_register"]
        value == u.chip[slave + 1] + 256 * hi
    IN IF u.ret # "Ok"
          THEN u
          ELSE IF res # "Ok"
                  THEN [u EXCEPT !.reply = res, !.ret = res,
                                 !.sent = IF res = "TxError" THEN 8 ELSE 12]
                  ELSE [u EXCEPT !.reply = res,
                                 !.sent = 12,
                                 !.ret = IF u.ifcnt[slave + 1] = value
                                            THEN "Ok"
                                            ELSE "IncorrectIfcnt"]

\* write_register: the unchecked write, then IFCNT (register 0x02) read back
\* and compared with the shadow. res is how read_register ends; hi is what the
\* chip puts in the reply above the 8 counter bits.
write_register(t, slave, tx_ok, accepts, res, hi) ==
    LET u == [write_register_unchecked(t, slave, tx_ok, accepts)
                 EXCEPT !.op = "write_register"]
        value == u.chip[slave + 1] + 256 * hi
    IN IF u.ret # "Ok"
          THEN u
          ELSE IF res # "Ok"
                  THEN [u EXCEPT !.reply = res, !.ret = res,
                                 !.sent = IF res = "TxError" THEN 8 ELSE 12]
                  ELSE [u EXCEPT !.reply = res,
                                 !.sent = 12,
                                 !.ret = IF u.ifcnt[slave + 1] = as_u8(value)
                                            THEN "Ok"
                                            ELSE "IncorrectIfcnt"]

TmcInit ==
    /\ PlannerIdle
    /\ TasksIdle
    /\ held = NoHeld
    /\ led = "waiting"
    /\ rr = NoRr
    /\ rp = NoRp
    /\ \E present \in AddrsPresent, c \in ChipStart :
          tmc = Tmc2209New(present, [i \in 1 .. 4 |-> IF present[i] THEN c ELSE 0])

TmcOnly == UNCHANGED <<pvars, LAST_COMMAND, CURRENT_POS, CONFIRM_SIGNAL, ERROR_SIGNAL,
                       nvs, mpc, cur, step_pin, dir_pin, buttons, sig_count, exec_log,
                       superseded, stop_signaled, cur_pct, io, mq, payload, calc,
                       held, led, rr, rp>>

WriteRegister ==
    /\ tmc.calls < MaxCalls
    /\ \E slave \in Slaves, tx_ok \in BOOLEAN, accepts \in BOOLEAN,
          res \in ReadResults, hi \in {0, 1} :
          tmc' = write_register(tmc, slave, tx_ok, accepts, res, hi)
    /\ TmcOnly

WriteRegisterUnchecked ==
    /\ tmc.calls < MaxCalls
    /\ \E slave \in Slaves, tx_ok \in BOOLEAN, accepts \in BOOLEAN :
          tmc' = write_register_unchecked(tmc, slave, tx_ok, accepts)
    /\ TmcOnly

TmcNext == WriteRegister \/ WriteRegisterUnchecked

TmcSpec == TmcInit /\ [][TmcNext]_vars

-----------------------------------------------------------------------------
(* Properties of the register interface, checked under TmcSpec *)

\* a call of write_register on a slave whose slot is present
WritesPresent ==
    /\ tmc'.calls = tmc.calls + 1
    /\ tmc'.op = "write_register"
    /\ tmc.ifcnt[tmc'.slave + 1] # None

\* C21: when write_register on a present slave gets its write frame out, it
\* has sent the 8 bytes of that frame, the slave's shadow is one more modulo
\* 256 than before, and, the IFCNT read having returned a value, the call
\* returns Ok exactly when the low 8 bits of that value equal the new shadow
\* and IncorrectIfcnt otherwise; whenever the call returns Ok the shadow equals
\* the IFCNT of the chip.
C21_WriteRegister ==
    [][ (WritesPresent /\ tmc'.ret # "TxError")
        => LET a == tmc'.slave + 1
           IN /\ tmc'.sent >= 8
              /\ tmc'.ifcnt[a] = (tmc.ifcnt[a] + 1) % 256
              /\ \A b \in 1 .. 4 : b # a => tmc'.ifcnt[b] = tmc.ifcnt[b]
              /\ tmc'.reply \in ReadResults
              /\ tmc'.reply = "Ok"
                    => /\ tmc'.sent = 12
                       /\ tmc'.ret \in {"Ok", "IncorrectIfcnt"}
                       /\ (tmc'.ret = "Ok") <=> (tmc'.chip[a] % 256 = tmc'.ifcnt[a])
              /\ tmc'.reply # "Ok" => tmc'.ret = tmc'.reply
              /\ tmc'.ret = "Ok" => tmc'.ifcnt[a] = tmc'.chip[a]
      ]_vars

\* C21 witness: a write_register whose shadow wrapped from 255 to 0 returned Ok
C21_Witness ==
    /\ tmc.op = "write_register"
    /\ tmc.ret = "Ok"
    /\ tmc.accepted
    /\ tmc.ifcnt[tmc.slave + 1] = 0
    /\ tmc.calls >= 1

\* C22 (as claimed): when write_register has failed with IncorrectIfcnt because
\* the chip dropped the write (the shadow went one ahead of the chip's IFCNT),
\* the next write_register to the same slave, which the chip accepts and whose
\* IFCNT read succeeds, returns Ok.
C22_RetrySucceeds ==
    [][ ( /\ tmc.op = "write_register"
          /\ tmc.ret = "IncorrectIfcnt"
          /\ ~tmc.accepted
          /\ tmc.ifcnt[tmc.slave + 1] = (tmc.chip[tmc.slave + 1] + 1) % 256
          /\ tmc'.calls = tmc.calls + 1
          /\ tmc'.op = "write_register"
          /\ tmc'.slave = tmc.slave
          /\ tmc'.accepted
          /\ tmc'.reply = "Ok" )
        => tmc'.ret = "Ok"
      ]_vars

\* a call of either write function on a slave whose slot is absent
WritesAbsent ==
    /\ tmc'.calls = tmc.calls + 1
    /\ tmc.ifcnt[tmc'.slave + 1] = None

\* C23: write_register and write_register_unchecked on a slave in 0..=3 whose
\* slot is absent return UnpopulatedAdress, transmit no byte, change no shadow
\* and make no chip count a write; and no call ever turns an absent slot into
\* a present one: the present slots are those present after construction.
C23_AbsentSlot ==
    [][ /\ WritesAbsent
           => /\ tmc'.ret = "UnpopulatedAdress"
              /\ tmc'.sent = 0
              /\ tmc'.ifcnt = tmc.ifcnt
              /\ tmc'.chip = tmc.chip
        /\ {a \in Slaves : tmc'.ifcnt[a + 1] # None} = tmc.present0
        /\ tmc'.present0 = tmc.present0
      ]_vars

\* C23 witness: both write functions have been called on an absent slot of a
\* driver that has another slot present
C23_Witness ==
    /\ tmc.calls >= 2
    /\ tmc.op = "write_register_unchecked"
    /\ tmc.ret = "UnpopulatedAdress"
    /\ tmc.slave \notin tmc.present0
    /\ tmc.present0 # {}

-----------------------------------------------------------------------------
(* Part 6: read_register byte by byte (tmc2209.rs 86-175): the request, the   *)
(* reads the UART answers with any number of the bytes that have arrived, the *)
(* search for the reply preamble, read_exact and the validation of the reply  *)

\* bytes of idle line in front of the echoed request
MaxIdle == 3

\* crc << 1 as u8, then ^ 0x07 when the bit shifted out differs from the
\* message bit (tmc2209.rs 167-171); the shifted value has bit 0 clear, so
\* ^ 0x07 turns its low three bits b into 7 - b
crc_bit(crc, bit) ==
    LET shifted == (crc * 2) % 256
    IN IF (crc \div 128) # bit
          THEN shifted - (shifted % 8) + (7 - (shifted % 8))
          ELSE shifted

RECURSIVE crc_byte(_, _, _)
\* the inner loop `for i in 0..8` from bit i on
crc_byte(crc, byte, i) ==
    IF i = 8 THEN crc
             ELSE LET next == crc_bit(crc, (byte \div (2 ^ i)) % 2)
                  \* (the test makes TLC compute next before it goes on)
                  IN IF next \in 0 .. 255 THEN crc_byte(next, byte, i + 1) ELSE None

RECURSIVE crc_from(_, _, _)
crc_from(crc, message, j) ==
    IF j > Len(message)
       THEN crc
       ELSE LET next == crc_byte(crc, message[j], 0)
            IN IF next \in 0 .. 255 THEN crc_from(next, message, j + 1) ELSE None

calc_uart_crc(message) == crc_from(0, message, 1)

\* [0xA5, slave & 0x7F, register, crc]
construct_read_uart_message(slave_address, register) ==
    LET msg == <<165, slave_address % 128, register>>
    IN Append(msg, calc_uart_crc(msg))

REPLY_BYTES == <<5, 255>>

\* buffer[..len].windows(2).position(|b| b == REPLY_BYTES): the least 0-based
\* index at which the two bytes stand, or None
windows_position(buffer, len) ==
    LET hits == {m \in 0 .. len - 2 : <<buffer[m + 1], buffer[m + 2]>> = REPLY_BYTES}
    IN IF hits = {} THEN None
                    ELSE CHOOSE m \in hits : \A n \in hits : m <= n

\* buffer.copy_within(message_start..len, 0)
copy_within(buffer, message_start, len) ==
    [i \in 1 .. 8 |-> IF i <= len - message_start THEN buffer[i + message_start]
                                                  ELSE buffer[i]]

\* results of read_register: a is the value's high half or the expected
\* address, b the value's low half or the address received
RrOk(value) == [kind |-> "Ok", a |-> value[1], b |-> value[2]]
RrErr(kind) == [kind |-> kind, a |-> 0, b |-> 0]
UnexpectedAdress(expected, got) == [kind |-> "UnexpectedAdress", a |-> expected, b |-> got]
RrPending == [kind |-> "-", a |-> 0, b |-> 0]

\* u32::from_be_bytes(buffer[3..7]): the four bytes at offsets 3, 4, 5 and 6
from_be_bytes(buffer) == u32(buffer[4] * 256 + buffer[5], buffer[6] * 256 + buffer[7])

\* a variant that takes the reply's register address from the first data byte
validate_offset_3(buffer, register) ==
    IF buffer[4] # register % 128
       THEN UnexpectedAdress(register, buffer[4])
       ELSE IF calc_uart_crc(SubSeq(buffer, 1, 7)) = buffer[8]
               THEN RrOk(from_be_bytes(buffer))
               ELSE RrErr("CrcMismatch")

\* lines 122-136 on the full buffer: the address at offset 2 against
\* register & 0x7F, then the CRC of bytes 0..7 against byte 7
validate(buffer, register) ==
    IF buffer[3] # register % 128
       THEN UnexpectedAdress(register, buffer[3])
       ELSE IF calc_uart_crc(SubSeq(buffer, 1, 7)) = buffer[8]
               THEN RrOk(from_be_bytes(buffer))
               ELSE RrErr("CrcMismatch")

\* registers asked for: IFCNT, and IFCNT with the write bit set
ReadRegisters == {2, 130}

\* the data of a reply: one whose first byte is a register address, and one
\* above 2^31 that holds the preamble bytes
ReplyData == { <<2, 0, 1, 44>>, <<128, 5, 255, 1>> }

\* what a chip sends: [0x05, 0xFF, register, data, crc], the CRC sound or not
Reply(register, data, crc_ok) ==
    LET msg == <<5, 255, register>> \o data
        crc == calc_uart_crc(msg)
    IN Append(msg, IF crc_ok THEN crc ELSE (crc + 1) % 256)

\* what arrives after the request went out: idle bytes, the request echoed by
\* the one-wire line, and the reply; k is the number of bytes before the reply
Incoming(register, k, reply) ==
    LET noise == [i \in 1 .. MaxIdle |-> 0] \o construct_read_uart_message(0, register)
    IN SubSeq(noise, Len(noise) - k + 1, Len(noise)) \o reply

RrStart(register, k, reply) ==
    [phase |-> "call", reg |-> register, k |-> k, reply |-> reply,
     wire |-> Incoming(register, k, reply), buffer |-> [i \in 1 .. 8 |-> 0],
     start |-> None, fragment_end |-> 0, ret |-> RrPending]

RrInit ==
    /\ PlannerIdle
    /\ TasksIdle
    /\ held = NoHeld
    /\ led = "waiting"
    /\ tmc = NoTmc
    /\ rp = NoRp
    /\ \E register \in ReadRegisters, k \in 0 .. MaxIdle + 4, sent \in {2, 6},
          data \in ReplyData, crc_ok \in BOOLEAN :
          rr = RrStart(register, k, Reply(sent, data, crc_ok))

RrOnly == UNCHANGED <<pvars, LAST_COMMAND, CURRENT_POS, CONFIRM_SIGNAL, ERROR_SIGNAL,
                      nvs, mpc, cur, step_pin, dir_pin, buttons, sig_count, exec_log,
                      superseded, stop_signaled, cur_pct, io, mq, payload, calc,
                      held, led, tmc, rp>>

\* write_all of the read request (lines 92-95)
RrRequest ==
    /\ rr.phase = "call"
    /\ \E tx_ok \in BOOLEAN :
          rr' = IF tx_ok THEN [rr EXCEPT !.phase = "read"]
                         ELSE [rr EXCEPT !.phase = "done", !.ret = RrErr("TxError")]
    /\ RrOnly

\* what the end of read_register makes of a full buffer
RrReturn(r) == [r EXCEPT !.phase = "done", !.ret = validate(r.buffer, r.reg)]

\* one pass of the loop: uart.read returns len of the bytes that have arrived
\* (at least one, at most the buffer); the preamble is searched for in those
\* len bytes. Found, the fragment moves to the front and read_exact takes over
\* (done at once when the fragment is the whole reply); not found, the loop
\* reads again over the same buffer.
RrRead ==
    /\ rr.phase = "read"
    /\ \E len \in 1 .. 8 :
          /\ len <= Len(rr.wire)
          /\ LET buffer == [i \in 1 .. 8 |-> IF i <= len THEN rr.wire[i] ELSE rr.buffer[i]]
                 message_start == windows_position(buffer, len)
                 r == [rr EXCEPT !.wire = SubSeq(rr.wire, len + 1, Len(rr.wire)),
                                 !.start = message_start]
             IN rr' = IF message_start = None
                         THEN [r EXCEPT !.buffer = buffer]
                         ELSE LET s == [r EXCEPT
                                          !.buffer = copy_within(buffer, message_start, len),
                                          !.fragment_end = len - message_start,
                                          !.phase = "fill"]
                              IN IF s.fragment_end = 8 THEN RrReturn(s) ELSE s
    /\ RrOnly

\* uart.read fails (line 103)
RrReadFails ==
    /\ rr.phase = "read"
    /\ rr' = [rr EXCEPT !.phase = "done", !.ret = RrErr("RxError")]
    /\ RrOnly

\* read_exact(&mut buffer[fragment_end..]) receives n more bytes; with the
\* last of them the buffer is full and read_register validates and returns
RrFill ==
    /\ rr.phase = "fill"
    /\ \E n \in 1 .. 8 - rr.fragment_end :
          /\ n <= Len(rr.wire)
          /\ LET s == [rr EXCEPT
                         !.buffer = [i \in 1 .. 8 |->
                                        IF i > rr.fragment_end /\ i <= rr.fragment_end + n
                                           THEN rr.wire[i - rr.fragment_end]
                                           ELSE rr.buffer[i]],
                         !.fragment_end = rr.fragment_end + n,
                         !.wire = SubSeq(rr.wire, n + 1, Len(rr.wire))]
             IN rr' = IF s.fragment_end = 8 THEN RrReturn(s) ELSE s
    /\ RrOnly

\* read_exact fails: end of stream, or an error of the UART (lines 116-119)
RrFillFails ==
    /\ rr.phase = "fill"
    /\ \E e \in {"UnexpectedEos", "RxError"} :
          rr' = [rr EXCEPT !.phase = "done", !.ret = RrErr(e)]
    /\ RrOnly

RrNext == RrRequest \/ RrRead \/ RrReadFails \/ RrFill \/ RrFillFails

ReadSpec == RrInit /\ [][RrNext]_vars

-----------------------------------------------------------------------------
(* Properties of read_register, checked under ReadSpec *)

\* read_register has returned what it made of a full, aligned buffer
Validated ==
    /\ rr.phase = "done"
    /\ rr.ret.kind \in {"Ok", "UnexpectedAdress", "CrcMismatch"}

\* C24 (as claimed): with the 8-byte reply aligned, read_register fails with
\* UnexpectedAdress when the byte at offset 3 differs from reg & 0x7F,
\* otherwise with CrcMismatch when the CRC of bytes 0..7 differs from byte 7,
\* and otherwise returns the big-endian u32 of the bytes at offsets 3..7.
C24_AddressAtOffset3 ==
    Validated =>
        /\ rr.buffer[1] = 5 /\ rr.buffer[2] = 255
        /\ IF rr.buffer[4] # rr.reg % 128
              THEN rr.ret.kind = "UnexpectedAdress"
              ELSE IF calc_uart_crc(SubSeq(rr.buffer, 1, 7)) # rr.buffer[8]
                      THEN rr.ret.kind = "CrcMismatch"
                      ELSE /\ rr.ret.kind = "Ok"
                           /\ rr.ret.a = rr.buffer[4] * 256 + rr.buffer[5]
                           /\ rr.ret.b = rr.buffer[6] * 256 + rr.buffer[7]

\* C24 (amended): with the 8-byte reply aligned (preamble at offsets 0 and 1),
\* read_register fails with UnexpectedAdress(reg, got) when the byte at offset
\* 2, got, differs from reg & 0x7F, otherwise with CrcMismatch when the CRC of
\* bytes 0..7 differs from byte 7, and otherwise returns the big-endian u32 of
\* the bytes at offsets 3, 4, 5 and 6.
C24_AddressAtOffset2 ==
    Validated =>
        /\ rr.buffer[1] = 5 /\ rr.buffer[2] = 255
        /\ IF rr.buffer[3] # rr.reg % 128
              THEN /\ rr.ret.kind = "UnexpectedAdress"
                   /\ rr.ret.a = rr.reg
                   /\ rr.ret.b = rr.buffer[3]
              ELSE IF calc_uart_crc(SubSeq(rr.buffer, 1, 7)) # rr.buffer[8]
                      THEN rr.ret.kind = "CrcMismatch"
                      ELSE /\ rr.ret.kind = "Ok"
                           /\ rr.ret.a = rr.buffer[4] * 256 + rr.buffer[5]
                           /\ rr.ret.b = rr.buffer[6] * 256 + rr.buffer[7]

\* C24 witness: a reply from another register, whose first data byte is the
\* address asked for, was refused with UnexpectedAdress
C24_Witness ==
    /\ Validated
    /\ rr.ret.kind = "UnexpectedAdress"
    /\ rr.buffer[4] = rr.reg % 128
    /\ rr.buffer = rr.reply

\* C25 (as claimed): wherever the preamble stands in the bytes a read returns
\* and however the UART splits the incoming bytes across reads, read_register
\* finds the preamble and moves it to offset 0, reads exactly the rest of the
\* 8-byte reply and returns what the reply holds: once all incoming bytes have
\* been read without a UART error, the call has returned with the reply in its
\* buffer; and while it completes a fragment, the fragment starts with the
\* preamble and nothing beyond the reply is taken.
C25_PreambleLocated ==
    /\ (rr.phase = "fill")
          => /\ <<rr.buffer[1], rr.buffer[2]>> = REPLY_BYTES
             /\ SubSeq(rr.buffer, 1, rr.fragment_end) = SubSeq(rr.reply, 1, rr.fragment_end)
             /\ Len(rr.wire) = 8 - rr.fragment_end
    /\ (rr.phase \in {"read", "fill"} /\ rr.wire = <<>>) => FALSE
    /\ Validated
          => /\ rr.buffer = rr.reply
             /\ rr.wire = <<>>

-----------------------------------------------------------------------------
(* Part 7: the four button tasks with their pins and timers (main.rs 358-418) *)
(* Time advances in steps of one debounce period (50 ms): a step of time      *)
(* fires every pending debounce timer. A task resumed by its pin or its timer *)
(* runs before time advances again.                                           *)

\* Duration::from_secs(1) in debounce periods (20, scaled)
SECOND == 3

\* changes of pin level, all buttons together
MaxEdges == 4

Buttons == {"home", "raise", "lower", "bottom"}

\* a variant that counts a press of exactly one second as long
is_long_ge(elapsed) == elapsed >= SECOND

\* start_press.elapsed() > Duration::from_secs(1)
is_long(elapsed) == elapsed > SECOND

home_command(elapsed) == IF is_long(elapsed) THEN Home ELSE MoveToPos(0)

bottom_command(elapsed) == IF is_long(elapsed) THEN SetBottom ELSE MoveToPos(100)

ButtonInit ==
    /\ PlannerIdle
    /\ TasksIdle
    /\ held = NoHeld
    /\ led = "waiting"
    /\ tmc = NoTmc
    /\ rr = NoRr
    /\ rp = NoRp

ButtonOnly == UNCHANGED <<pvars, CURRENT_POS, CONFIRM_SIGNAL, ERROR_SIGNAL, nvs, mpc,
                          cur, step_pin, dir_pin, exec_log, stop_signaled, cur_pct, io,
                          mq, payload, calc, ovars>>

\* the task of button b is resumed by its pin
Resumed(b) ==
    \/ held.task[b].pc = "wait_low" /\ held.task[b].pin = "Low"
    \/ held.task[b].pc = "wait_high" /\ held.task[b].pin = "High"

\* the button is pushed or let go, or its contact bounces
PinChange ==
    /\ held.edges < MaxEdges
    /\ \E b \in Buttons :
          held' = [held EXCEPT !.edges = held.edges + 1,
                               !.task[b].pin = IF held.task[b].pin = "High"
                                                  THEN "Low" ELSE "High"]
    /\ UNCHANGED <<LAST_COMMAND, sig_count, superseded, buttons>>
    /\ ButtonOnly

\* LAST_COMMAND.signal(c) by the task of button b
ButtonSignal(c, b, st) ==
    /\ sig_count' = sig_count + 1
    /\ LAST_COMMAND' = signal(LAST_COMMAND, [c EXCEPT !.id = sig_count + 1])
    /\ superseded' = IF LAST_COMMAND.cmd # "none"
                        THEN superseded \cup {LAST_COMMAND.id}
                        ELSE superseded
    /\ buttons' = [buttons EXCEPT ![b] = st]

\* wait_for_low returns in home_button_task or bottom_button_task:
\* start_press = Instant::now(), then the 50 ms timer
TimedLow(b) ==
    /\ held.task[b].pc = "wait_low"
    /\ held.task[b].pin = "Low"
    /\ held' = [held EXCEPT !.task[b].pc = "debounce_low", !.task[b].elapsed = 0]
    /\ buttons' = [buttons EXCEPT ![b] = "pressed"]
    /\ UNCHANGED <<LAST_COMMAND, sig_count, superseded>>
    /\ ButtonOnly

\* wait_for_high returns: the command chosen by start_press.elapsed() is
\* signaled, then the 50 ms timer
TimedHigh(b, c) ==
    /\ held.task[b].pc = "wait_high"
    /\ held.task[b].pin = "High"
    /\ ButtonSignal(c, b, "idle")
    /\ held' = [held EXCEPT !.task[b].pc = "debounce_high"]
    /\ ButtonOnly

HomeButtonLow == TimedLow("home")
HomeButtonHigh == TimedHigh("home", home_command(held.task["home"].elapsed))
BottomButtonLow == TimedLow("bottom")
BottomButtonHigh == TimedHigh("bottom", bottom_command(held.task["bottom"].elapsed))

\* a variant in which both jog tasks start a jog away from home
JogLowAway(b, dir) ==
    /\ held.task[b].pc = "wait_low"
    /\ held.task[b].pin = "Low"
    /\ ButtonSignal(StartJog("AwayFromHome"), b, "pressed")
    /\ held' = [held EXCEPT !.task[b].pc = "debounce_low"]
    /\ ButtonOnly

\* wait_for_low returns in raise_button_task or lower_button_task: StartJog is
\* signaled, then the 50 ms timer
JogLow(b, dir) ==
    /\ held.task[b].pc = "wait_low"
    /\ held.task[b].pin = "Low"
    /\ ButtonSignal(StartJog(dir), b, "pressed")
    /\ held' = [held EXCEPT !.task[b].pc = "debounce_low"]
    /\ ButtonOnly

\* wait_for_high returns: StopJog is signaled, then the 50 ms timer
JogHigh(b) ==
    /\ held.task[b].pc = "wait_high"
    /\ held.task[b].pin = "High"
    /\ ButtonSignal(StopJog, b, "idle")
    /\ held' = [held EXCEPT !.task[b].pc = "debounce_high"]
    /\ ButtonOnly

RaiseButtonLow == JogLow("raise", "ToHome")
RaiseButtonHigh == JogHigh("raise")
LowerButtonLow == JogLow("lower", "AwayFromHome")
LowerButtonHigh == JogHigh("lower")

\* one debounce period passes: the timers pending fire and their tasks go on
\* to wait for the pin; the time since start_press grows (counted up to one
\* period past the second)
Tick ==
    /\ \A b \in Buttons : ~Resumed(b)
    /\ held' = [held EXCEPT !.task =
                  [b \in Buttons |->
                     [pin |-> held.task[b].pin,
                      pc |-> CASE held.task[b].pc = "debounce_low" -> "wait_high"
                               [] held.task[b].pc = "debounce_high" -> "wait_low"
                               [] OTHER -> held.task[b].pc,
                      elapsed |-> IF /\ b \in {"home", "bottom"}
                                     /\ held.task[b].pc \in {"debounce_low", "wait_high"}
                                     /\ held.task[b].elapsed <= SECOND
                                     THEN held.task[b].elapsed + 1
                                     ELSE held.task[b].elapsed]]]
    /\ UNCHANGED <<LAST_COMMAND, sig_count, superseded, buttons>>
    /\ ButtonOnly

ButtonTasks ==
    \/ HomeButtonLow
    \/ HomeButtonHigh
    \/ BottomButtonLow
    \/ BottomButtonHigh
    \/ RaiseButtonLow
    \/ RaiseButtonHigh
    \/ LowerButtonLow
    \/ LowerButtonHigh

ButtonNext == PinChange \/ ButtonTasks \/ Tick

ButtonSpec == ButtonInit /\ [][ButtonNext]_vars

\* the executor runs a task that was woken, and time passes
ButtonLiveSpec == ButtonSpec /\ WF_vars(ButtonTasks) /\ WF_vars(Tick)

-----------------------------------------------------------------------------
(* Properties of the button tasks, checked under ButtonSpec and, with the     *)
(* tasks scheduled fairly, under ButtonLiveSpec                               *)

\* the task of button b takes the low edge of a press / the high edge that
\* ends it
TakesLow(b) ==
    held.task[b].pc = "wait_low" /\ held'.task[b].pc = "debounce_low"
TakesHigh(b) ==
    held.task[b].pc = "wait_high" /\ held'.task[b].pc = "debounce_high"

\* a task only moves from the wait for low through the first timer, the wait
\* for high and the second timer back to the wait for low
InCycleOrder(b) ==
    held'.task[b].pc # held.task[b].pc
       => <<held.task[b].pc, held'.task[b].pc>> \in
             { <<"wait_low", "debounce_low">>, <<"debounce_low", "wait_high">>,
               <<"wait_high", "debounce_high">>, <<"debounce_high", "wait_low">> }

\* C26: the Home and Bottom button tasks signal nothing when they take the low
\* edge of a press and exactly one command when they take the high edge that
\* ends it: MoveToPos(0) (Home button) or MoveToPos(100) (Bottom button) when
\* the time since the low edge is at most 1 s, Home or SetBottom when it is
\* longer; low and high edges are taken in turn, and these tasks signal at no
\* other step.
C26_TimedButtons ==
    [][ /\ \A b \in {"home", "bottom"} :
             /\ InCycleOrder(b)
             /\ TakesLow(b) => /\ sig_count' = sig_count
                               /\ LAST_COMMAND' = LAST_COMMAND
             /\ TakesHigh(b)
                   => /\ held.task[b].pin = "High"
                      /\ sig_count' = sig_count + 1
                      /\ LAST_COMMAND'.id = sig_count'
                      /\ held.task[b].elapsed <= SECOND
                            => /\ LAST_COMMAND'.cmd = "MoveToPos"
                               /\ LAST_COMMAND'.pct = IF b = "home" THEN 0 ELSE 100
                      /\ held.task[b].elapsed > SECOND
                            => LAST_COMMAND'.cmd = IF b = "home" THEN "Home"
                                                                 ELSE "SetBottom"
        /\ sig_count' # sig_count
              => /\ sig_count' = sig_count + 1
                 /\ \/ \E b \in {"home", "bottom"} : TakesHigh(b)
                    \/ \E b \in {"raise", "lower"} : TakesLow(b) \/ TakesHigh(b)
        /\ LAST_COMMAND'.cmd \in {"Home", "SetBottom", "MoveToPos"}
              /\ LAST_COMMAND' # LAST_COMMAND
              => \E b \in {"home", "bottom"} : TakesHigh(b)
      ]_vars

\* C26 witness: after an earlier press, a press of the Home button held for
\* more than a second has ended and Home is pending
C26_Witness ==
    /\ LAST_COMMAND.cmd = "Home"
    /\ sig_count >= 2
    /\ held.task["home"].pc = "debounce_high"
    /\ held.task["home"].elapsed > SECOND

\* the jog started by button b has not been stopped
JogHeld(b) == held.task[b].pc \in {"debounce_low", "wait_high"}

\* C27: each jog button task signals StartJog (ToHome for Raise, AwayFromHome
\* for Lower) when it takes the low edge of a press and StopJog when it takes
\* the high edge that ends it, in turn and starting with StartJog, and signals
\* at no other step; and once the button stays released, a StartJog it
\* signaled is followed by its StopJog.
C27_JogButtons ==
    /\ [][ \A b \in {"raise", "lower"} :
             /\ InCycleOrder(b)
             /\ TakesLow(b)
                   => /\ held.task[b].pin = "Low"
                      /\ sig_count' = sig_count + 1
                      /\ LAST_COMMAND'.id = sig_count'
                      /\ LAST_COMMAND'.cmd = "StartJog"
                      /\ LAST_COMMAND'.dir = IF b = "raise" THEN "ToHome"
                                                            ELSE "AwayFromHome"
             /\ TakesHigh(b)
                   => /\ held.task[b].pin = "High"
                      /\ sig_count' = sig_count + 1
                      /\ LAST_COMMAND'.id = sig_count'
                      /\ LAST_COMMAND'.cmd = "StopJog"
             /\ (LAST_COMMAND'.cmd \in {"StartJog", "StopJog"}
                    /\ LAST_COMMAND' # LAST_COMMAND)
                   => \E c \in {"raise", "lower"} : TakesLow(c) \/ TakesHigh(c)
         ]_vars
    /\ \A b \in {"raise", "lower"} :
          (JogHeld(b) /\ [](held.task[b].pin = "High")) ~> ~JogHeld(b)

\* C27 witness: the Lower button was pushed and let go; its StartJog was
\* replaced in LAST_COMMAND by its StopJog
C27_Witness ==
    /\ held.task["lower"].pc = "debounce_high"
    /\ LAST_COMMAND.cmd = "StopJog"
    /\ sig_count >= 2
    /\ sig_count - 1 \in superseded

-----------------------------------------------------------------------------
(* Part 8: motor_task with error_led_task (main.rs 350-356), commands coming  *)
(* from MQTT and from the Bottom button                                       *)

\* the publishes that arrive: a percentage in range, one whose target lies
\* beyond the travel limit, and a negative one
ErrorPublishes == { <<"5", "0">>, <<"1", "2", "7">>, <<"-", "1">> }

\* ERROR_SIGNAL.wait() returns, whatever was signaled: the LED is switched on
\* and the task sleeps for a second
LedTake ==
    /\ led = "waiting"
    /\ MainRuns
    /\ ERROR_SIGNAL # "none"
    /\ ERROR_SIGNAL' = "none"
    /\ led' = "on"
    /\ UNCHANGED <<pvars, LAST_COMMAND, CURRENT_POS, CONFIRM_SIGNAL, nvs, mpc, cur,
                   step_pin, dir_pin, buttons, sig_count, exec_log, superseded,
                   stop_signaled, cur_pct, io, mq, payload, calc, held, tmc, rr, rp>>

\* the second is over: the LED is switched off and the task function returns
LedOff ==
    /\ led = "on"
    /\ MainRuns
    /\ led' = "done"
    /\ UNCHANGED <<pvars, LAST_COMMAND, CURRENT_POS, CONFIRM_SIGNAL, ERROR_SIGNAL, nvs,
                   mpc, cur, step_pin, dir_pin, buttons, sig_count, exec_log,
                   superseded, stop_signaled, cur_pct, io, mq, payload, calc, held,
                   tmc, rr, rp>>

MqttErrorIngress ==
    \E bytes \in ErrorPublishes : MqttReceive("command", bytes)

ErrorInit == IngressInit

ErrorNext ==
    \/ MotorBoot
    \/ MotorTake
    \/ MotorPulseLow
    \/ MotorNextStep
    \/ MqttConnect
    \/ MqttErrorIngress
    \/ BottomPress
    \/ BottomRelease
    \/ LedTake
    \/ LedOff

ErrorSpec == ErrorInit /\ [][ErrorNext]_vars

-----------------------------------------------------------------------------
(* Properties of the error path, checked under ErrorSpec *)

\* the dispatcher takes a command that fails with a configuration error: a
\* MoveToPos or StartJog for which the planner returns Err (NotHomed,
\* MoveOutOfBounds), or SetBottom while the position is unknown
ConfigError ==
    /\ mpc = "wait"
    /\ exec_log' # exec_log
    /\ LET c == LAST_COMMAND
           m == move_target(c.pct, stepper.travel_limit, overflow_checks)
       IN \/ /\ c.cmd = "MoveToPos"
             /\ ~m.panic
             /\ planned_move(stepper, m.target).ret.tag = "Err"
          \/ /\ c.cmd = "StartJog"
             /\ continuous_jog(stepper, c.dir).ret.tag = "Err"
          \/ /\ c.cmd = "SetBottom"
             /\ pos(stepper) = None

\* C28 (as claimed): every Soft error raised while the LED is not blinking,
\* the first and every later one, makes the LED go on and, a second later,
\* off: it finds error_led_task waiting on ERROR_SIGNAL, the one place from
\* which the LED is switched on.
C28_EverySoftBlinks ==
    [][ (ConfigError /\ led # "on") => (ERROR_SIGNAL' = "Soft" /\ led = "waiting") ]_vars

\* C29: when a command the dispatcher takes fails with a configuration error,
\* the dispatcher signals ERROR_SIGNAL with Soft, raises no step pulse and
\* starts no plan, leaves the Stepper (position and travel_limit), the stored
\* travel limit and CONFIRM_SIGNAL as they were, and is back at
\* LAST_COMMAND.wait() with no command pending.
C29_ConfigErrorSoft ==
    [][ ConfigError
        => /\ ERROR_SIGNAL' = "Soft"
           /\ step_pin = "Low" /\ step_pin' = "Low"
           /\ plan' = NoPlan
           /\ emitted' = emitted
           /\ stepper' = stepper
           /\ nvs' = nvs
           /\ CONFIRM_SIGNAL' = CONFIRM_SIGNAL
           /\ mpc' = "wait"
           /\ LAST_COMMAND' = NoCmd
           /\ ~panicked'
      ]_vars

\* C29 witness: MoveToPos(127), whose target lies beyond the travel limit, was
\* refused with a Soft error and the dispatcher waits for the next command
C29_Witness ==
    /\ ERROR_SIGNAL = "Soft"
    /\ mpc = "wait"
    /\ ret.tag = "Err"
    /\ cur_pct = 127
    /\ exec_log # <<>>
    /\ pos(stepper) # None

-----------------------------------------------------------------------------
(* Part 9.  The planner at full resolution.                                  *)
(*                                                                           *)
(* The acceleration tests of iter-step-gen (lib.rs 425-601) run the planner  *)
(* with TRAVEL_LIMIT 2048, MAX_VEL 255, MAX_ACCEL 64 and START_VEL 50 at the *)
(* tick rate of embassy_time, one tick per microsecond.  p^3 and TICK_HZ^2   *)
(* do not fit the integers of the model checker, so u64 values are kept as   *)
(* little-endian sequences of limbs in base 2^15, without leading zeros, and *)
(* the arithmetic on them is exact.                                          *)

BASE == 2 ^ 15

RECURSIVE big(_)
big(n) == IF n = 0 THEN <<>> ELSE <<n % BASE>> \o big(n \div BASE)

limb(a, i) == IF i <= Len(a) THEN a[i] ELSE 0

RECURSIVE big_norm(_)
big_norm(a) ==
    IF a = <<>> THEN <<>>
    ELSE IF a[Len(a)] = 0 THEN big_norm(SubSeq(a, 1, Len(a) - 1))
    ELSE a

RECURSIVE big_to_int(_)
big_to_int(a) == IF a = <<>> THEN 0 ELSE a[1] + BASE * big_to_int(Tail(a))

RECURSIVE big_add_from(_, _, _, _)
big_add_from(a, b, i, carry) ==
    IF i > Max(Len(a), Len(b))
        THEN (IF carry = 0 THEN <<>> ELSE <<carry>>)
        ELSE LET s == limb(a, i) + limb(b, i) + carry
             IN IF s \in 0 .. 2 * BASE
                   THEN <<s % BASE>> \o big_add_from(a, b, i + 1, s \div BASE)
                   ELSE <<>>

big_add(a, b) == big_add_from(a, b, 1, 0)

\* a - b for a >= b
RECURSIVE big_sub_from(_, _, _, _)
big_sub_from(a, b, i, borrow) ==
    IF i > Len(a) THEN <<>>
    ELSE LET s == limb(a, i) - limb(b, i) - borrow
         IN IF s < 0
               THEN <<s + BASE>> \o big_sub_from(a, b, i + 1, 1)
               ELSE <<s>> \o big_sub_from(a, b, i + 1, 0)

big_sub(a, b) == big_norm(big_sub_from(a, b, 1, 0))

RECURSIVE big_lt_from(_, _, _)
big_lt_from(a, b, i) ==
    IF i = 0 THEN FALSE
    ELSE IF a[i] # b[i] THEN a[i] < b[i]
    ELSE big_lt_from(a, b, i - 1)

big_lt(a, b) ==
    IF Len(a) # Len(b) THEN Len(a) < Len(b) ELSE big_lt_from(a, b, Len(a))

big_le(a, b) == ~big_lt(b, a)

\* a * k for a limb k
RECURSIVE big_mul_small_from(_, _, _, _)
big_mul_small_from(a, k, i, carry) ==
    IF i > Len(a) THEN (IF carry = 0 THEN <<>> ELSE <<carry>>)
    ELSE LET s == a[i] * k + carry
         IN IF s >= 0
               THEN <<s % BASE>> \o big_mul_small_from(a, k, i + 1, s \div BASE)
               ELSE <<>>

big_mul_small(a, k) == big_norm(big_mul_small_from(a, k, 1, 0))

big_shift(a, n) == IF a = <<>> THEN <<>> ELSE [i \in 1 .. n |-> 0] \o a

RECURSIVE big_mul_from(_, _, _)
big_mul_from(a, b, j) ==
    IF j > Len(b) THEN <<>>
    ELSE big_add(big_shift(big_mul_small(a, b[j]), j - 1),
                 big_mul_from(a, b, j + 1))

big_mul(a, b) == big_mul_from(a, b, 1)

\* the largest limb q in lo .. hi with d * q <= r
RECURSIVE quot_digit(_, _, _, _)
quot_digit(r, d, lo, hi) ==
    IF lo = hi THEN lo
    ELSE LET mid == (lo + hi + 1) \div 2
         IN IF big_le(big_mul_small(d, mid), r)
               THEN quot_digit(r, d, mid, hi)
               ELSE quot_digit(r, d, lo, mid - 1)

\* long division of x by d # 0, from the most significant limb x[i] down,
\* with r the remainder of the limbs above
RECURSIVE big_divmod_from(_, _, _, _)
big_divmod_from(x, d, i, r) ==
    IF i = 0 THEN [q |-> <<>>, r |-> r]
    ELSE LET r1 == big_norm(<<x[i]>> \o r)
             qi == quot_digit(r1, d, 0, BASE - 1)
             r2 == big_sub(r1, big_mul_small(d, qi))
             rest == big_divmod_from(x, d, i - 1, r2)
         IN [q |-> Append(rest.q, qi), r |-> rest.r]

big_divmod(x, d) ==
    LET res == big_divmod_from(x, d, Len(x), <<>>)
    IN [q |-> big_norm(res.q), r |-> res.r]

\* u64::MAX = 2^64 - 1 = 15 * 2^60 + (2^60 - 1)
U64_MAX_WIDE == <<BASE - 1, BASE - 1, BASE - 1, BASE - 1, 15>>

big_min(a, b) == IF big_lt(b, a) THEN b ELSE a
big_max(a, b) == IF big_lt(a, b) THEN b ELSE a

saturating_pow3_wide(p) == big_min(big_mul(big_mul(p, p), p), U64_MAX_WIDE)
saturating_add_wide(a, b) == big_min(big_add(a, b), U64_MAX_WIDE)
saturating_sub_wide(a, b) == IF big_lt(a, b) THEN <<>> ELSE big_sub(a, b)

-----------------------------------------------------------------------------
(* The Stepper of the acceleration tests and PlannedMove::next on it *)

\* embassy_time::TICK_HZ as the tests see it: one tick per microsecond
EMBASSY_TICK_HZ == 1000000
TEST_TRAVEL_LIMIT == 2048
TEST_MAX_VEL == 255
TEST_MAX_ACCEL == 64
TEST_START_VEL == 50

\* the targets of test_move_max_accel and test_move_max_accel_short
TestTargets == {TEST_TRAVEL_LIMIT, TEST_MAX_ACCEL}

from_hz_wide(hz) ==
    IF hz >= EMBASSY_TICK_HZ THEN 1 ELSE (EMBASSY_TICK_HZ + hz \div 2) \div hz

compute_accel_divisor_wide(max_accel) ==
    big_divmod(big_mul(big(EMBASSY_TICK_HZ), big(EMBASSY_TICK_HZ)), big(max_accel)).q

compute_inital_delay_wide(start_vel, max_accel) ==
    EMBASSY_TICK_HZ \div isqrt(start_vel * start_vel + 2 * max_accel)

StepperNewWide(travel_limit, max_speed, max_accel, start_vel) ==
    [ travel_limit |-> travel_limit,
      max_speed |-> max_speed,
      max_accel |-> max_accel,
      start_vel |-> start_vel,
      curent_pos |-> None,
      max_stopping_distance |->
          compute_max_stopping_distance(max_speed, start_vel, max_accel),
      cruise_delay |-> from_hz_wide(max_speed),
      accel_divisor |-> compute_accel_divisor_wide(max_accel),
      inital_delay |-> compute_inital_delay_wide(start_vel, max_accel) ]

\* a planned_move that reserves no distance for stopping
planned_move_no_stopping_distance(s, target_pos) ==
    [ phase |-> "Accelerate",
      stopping_distance |-> 0,
      prev_delay |-> U64_MAX_WIDE,
      steps_to_travel |-> abs_diff(s.curent_pos, target_pos),
      rem |-> <<>> ]

\* Stepper::planned_move for a homed stepper and a target inside the limit
planned_move_wide(s, target_pos) ==
    LET move_distance == abs_diff(s.curent_pos, target_pos)
    IN [ phase |-> "Accelerate",
         stopping_distance |->
             (IF move_distance > s.max_stopping_distance * 2
                 THEN s.max_stopping_distance
                 ELSE div_ceil(move_distance, 2)) + 2,
         prev_delay |-> U64_MAX_WIDE,
         steps_to_travel |-> move_distance,
         rem |-> <<>> ]

\* min(max(raw, cruise_delay), inital_delay), as ticks
clamp_delay_wide(s, raw) ==
    big_to_int(big_min(big_max(raw, big(s.cruise_delay)), big(s.inital_delay)))

\* the u64 sum p^3 + rem; overflow is reported, not wrapped
pdividend_wide(p, rem) ==
    LET sum == big_add(saturating_pow3_wide(p), rem)
    IN [val |-> sum, overflow |-> big_lt(U64_MAX_WIDE, sum)]

\* PlannedMove::next, the arms that yield a delay: the iterator after the
\* call and the delay returned
PlannedMove_next_wide(s, pm) ==
    LET n == pm.steps_to_travel - 1
        toDecel == n <= pm.stopping_distance
        p == pm.prev_delay
    IN CASE pm.phase = "Accelerate" ->
              LET pd == pdividend_wide(p, IF toDecel THEN <<>> ELSE pm.rem)
                  dm == big_divmod(pd.val, s.accel_divisor)
                  d == clamp_delay_wide(s, saturating_sub_wide(p, dm.q))
              IN [ pm |-> [pm EXCEPT !.steps_to_travel = n, !.rem = dm.r,
                                     !.prev_delay = big(d),
                                     !.phase = IF d = s.cruise_delay THEN "Cruise"
                                               ELSE IF toDecel THEN "Decelerate"
                                               ELSE "Accelerate"],
                   delay |-> d, overflow |-> pd.overflow ]
         [] pm.phase = "Cruise" ->
              [ pm |-> [pm EXCEPT !.steps_to_travel = n,
                                  !.phase = IF toDecel THEN "Decelerate" ELSE "Cruise",
                                  !.rem = IF toDecel THEN <<>> ELSE pm.rem],
                delay |-> big_to_int(p), overflow |-> FALSE ]
         [] pm.phase = "Decelerate" ->
              LET pd == pdividend_wide(p, pm.rem)
                  dm == big_divmod(pd.val, s.accel_divisor)
                  d == clamp_delay_wide(s, saturating_add_wide(p, dm.q))
              IN [ pm |-> [pm EXCEPT !.steps_to_travel = n, !.rem = dm.r,
                                     !.prev_delay = big(d)],
                   delay |-> d, overflow |-> pd.overflow ]

\* PlannedMove::next returns None
PlannedMove_ends(pm) ==
    pm.phase \in {"Accelerate", "Decelerate"} /\ pm.steps_to_travel = 0

-----------------------------------------------------------------------------
(* The run of test_move_max_accel and test_move_max_accel_short.  rp holds   *)
(* the stepper, the iterator and the locals of the test: delays are the last *)
(* three step delays (prev_step is the newest), which determine the two      *)
(* entries of accels; yielded counts the steps.                              *)

RpInit ==
    /\ PlannerIdle
    /\ TasksIdle
    /\ held = NoHeld
    /\ led = "waiting"
    /\ tmc = NoTmc
    /\ rr = NoRr
    /\ rp = [ phase |-> "new",
              stepper |-> StepperNewWide(TEST_TRAVEL_LIMIT, TEST_MAX_VEL,
                                         TEST_MAX_ACCEL, TEST_START_VEL) ]

RpOnly == UNCHANGED <<pvars, LAST_COMMAND, CURRENT_POS, CONFIRM_SIGNAL, ERROR_SIGNAL,
                      nvs, mpc, cur, step_pin, dir_pin, buttons, sig_count, exec_log,
                      superseded, stop_signaled, cur_pct, io, mq, payload, calc,
                      held, led, tmc, rr>>

\* stepper.homing_move(|| true) and one next(): the endstop is closed
RpHome ==
    /\ rp.phase = "new"
    /\ rp' = [ phase |-> "homed",
               stepper |-> [rp.stepper EXCEPT !.curent_pos = 0] ]
    /\ RpOnly

\* prev_step = stepper.inital_delay; accels = [0.0; 2]; planned_move(target)
RpPlan ==
    /\ rp.phase = "homed"
    /\ \E t \in TestTargets :
          rp' = [ phase |-> "moving",
                  stepper |-> rp.stepper,
                  target |-> t,
                  pm |-> planned_move_wide(rp.stepper, t),
                  delays |-> [i \in 1 .. 3 |-> rp.stepper.inital_delay],
                  yielded |-> 0,
                  overflow |-> FALSE ]
    /\ RpOnly

\* one turn of `for step in steps`
RpStep ==
    /\ rp.phase = "moving"
    /\ ~PlannedMove_ends(rp.pm)
    /\ ~rp.overflow
    /\ LET r == PlannedMove_next_wide(rp.stepper, rp.pm)
       IN rp' = [rp EXCEPT !.pm = r.pm,
                           !.stepper.curent_pos = rp.stepper.curent_pos + 1,
                           !.delays = <<rp.delays[2], rp.delays[3], r.delay>>,
                           !.yielded = rp.yielded + 1,
                           !.overflow = r.overflow]
    /\ RpOnly

\* the iterator returns None and the loop ends
RpEnd ==
    /\ rp.phase = "moving"
    /\ PlannedMove_ends(rp.pm)
    /\ rp' = [rp EXCEPT !.phase = "finished"]
    /\ RpOnly

RpNext == RpHome \/ RpPlan \/ RpStep \/ RpEnd

AccelSpec == RpInit /\ [][RpNext]_vars

\* T^2 * | (d1 - d2) * d0^2 + (d0 - d1) * d2 * d1 |, the numerator of
\* | a_n + a_(n-1) | over the common denominator d2 * d1^2 * d0^2, where
\* a_n = (T / d2 - T / d1) * (T / d1) and a_(n-1) = (T / d1 - T / d0) * (T / d0)
accel_sum_numerator(d0, d1, d2) ==
    LET t1 == big_mul_small(big_mul_small(big(abs_diff(d1, d2)), d0), d0)
        t2 == big_mul_small(big_mul_small(big(abs_diff(d0, d1)), d2), d1)
        same == (d1 >= d2) = (d0 >= d1)
        num == IF same THEN big_add(t1, t2)
               ELSE IF big_lt(t1, t2) THEN big_sub(t2, t1) ELSE big_sub(t1, t2)
    IN big_mul(num, big_mul(big(EMBASSY_TICK_HZ), big(EMBASSY_TICK_HZ)))

accel_sum_denominator(d0, d1, d2) ==
    big_mul_small(big_mul_small(big_mul_small(big_mul_small(big(d2), d1), d1), d0), d0)

\* | avg | <= bound, avg the mean of the two entries of accels
avg_within(delays, bound) ==
    big_le(accel_sum_numerator(delays[1], delays[2], delays[3]),
           big_mul(big(2 * bound),
                   accel_sum_denominator(delays[1], delays[2], delays[3])))

\* | (start_vel - T / d) * (T / d) | <= bound
final_accel_within(start_vel, d, bound) ==
    big_le(big_mul(big(EMBASSY_TICK_HZ),
                   big(abs_diff(start_vel * d, EMBASSY_TICK_HZ))),
           big_mul_small(big_mul_small(big(bound), d), d))

\* C30: in the full-travel move and in the short move of the tests, the
\* per-step acceleration (v_n - v_(n-1)) * v_(n-1) with v = TICK_HZ / delay,
\* averaged over two adjacent steps, stays within 2 * max_accel at every step,
\* and the drop from the last step's velocity to start_vel stays within
\* max_accel + 1.
C30_AccelBound ==
    /\ (rp.phase \in {"moving", "finished"} /\ rp.yielded > 0) =>
          /\ ~rp.overflow
          /\ avg_within(rp.delays, 2 * rp.stepper.max_accel)
    /\ rp.phase = "finished" =>
          final_accel_within(rp.stepper.start_vel, rp.delays[3],
                             rp.stepper.max_accel + 1)

\* The full-travel move has run to its end through acceleration, cruise and
\* deceleration, one step per position.
C30_Witness ==
    /\ rp.phase = "finished"
    /\ rp.target = TEST_TRAVEL_LIMIT
    /\ rp.yielded = TEST_TRAVEL_LIMIT
    /\ rp.stepper.curent_pos = TEST_TRAVEL_LIMIT
    /\ rp.pm.phase = "Decelerate"
    /\ rp.delays[3] < rp.stepper.inital_delay

-----------------------------------------------------------------------------
(* Part 10.  The homing and jog sequences and the mutators of the Stepper  *)
(* (lib.rs 121-136, 178-248, 296-311, 410-422)                             *)

\* a HomingMove::next call: the iterator is polled and stays borrowed
HomingPolled == plan.kind = "homing" /\ plan'.kind = "homing"

\* C31: homing_move returns the home direction and a sequence that has
\* emitted nothing; each poll whose endstop predicate is false emits one delay
\* of TICK_HZ / start_vel ticks, the poll whose predicate is true emits none
\* and ends the sequence, and steps_moved() is the number of delays emitted.
C31_HomingMove ==
    [][ /\ (plan.kind = "none" /\ plan'.kind = "homing") =>
              /\ ret' = Ok(stepper.dir_to_home)
              /\ emitted' = 0
              /\ plan'.steps_moved = 0
        /\ HomingPolled =>
              /\ \/ /\ ret' = Some(TICK_HZ \div stepper.start_vel)
                    /\ emitted' = emitted + 1
                    /\ stepper' = stepper
                 \/ /\ ret' = RetNone
                    /\ emitted' = emitted
                    /\ pos(stepper') = 0
              /\ plan'.steps_moved = emitted' ]_vars

\* A homing sequence has ended after two delays.
C31_Witness ==
    /\ plan.kind = "homing"
    /\ ret = RetNone
    /\ emitted = 2
    /\ plan.steps_moved = 2
    /\ pos(stepper) = 0

\* a continuous_jog call, and a ContinuousJog::next call
JogCalled == plan.kind = "none" /\ plan'.kind = "jog"
JogPolled == plan.kind = "jog" /\ plan'.kind = "jog"

\* continuous_jog on a Stepper whose position is unknown: NotHomed, no sequence
JogRefused ==
    pos(stepper) = None =>
        \A d \in Direction :
            continuous_jog(stepper, d) = [plan |-> NoPlan, ret |-> Err("NotHomed")]

\* what C32 says of the calls and of the polls that end the sequence
JogCallsAndEnds ==
    /\ JogRefused
    /\ (plan.kind = "none" /\ ret'.tag = "Err") =>
          (plan' = NoPlan /\ stepper' = stepper)
    /\ JogCalled =>
          /\ pos(stepper) # None
          /\ ret' = Ok(plan'.dir)
          /\ emitted' = 0
          /\ stepper' = stepper
          /\ plan'.delay = TICK_HZ \div stepper.start_vel
    /\ (JogPolled /\ ret'.tag = "None") =>
          (emitted' = emitted /\ stepper' = stepper)
    /\ (JogPolled /\ ret'.tag = "Some") =>
          /\ ret' = Some(TICK_HZ \div stepper.start_vel)
          /\ emitted' = emitted + 1
          /\ [stepper' EXCEPT !.curent_pos = 0] = [stepper EXCEPT !.curent_pos = 0]

-----------------------------------------------------------------------------
(* The mutators of the Stepper (lib.rs 206-248) and the specification       *)
(* MutatorSpec: a Stepper is built, homed any number of times, and its      *)
(* parameters are changed between plans.                                    *)

set_max_speed(s, max_speed) ==
    [s EXCEPT !.max_speed = max_speed,
              !.max_stopping_distance =
                  compute_max_stopping_distance(max_speed, s.start_vel, s.max_accel),
              !.cruise_delay = compute_cruise_delay(max_speed)]

set_max_accel(s, max_accel) ==
    [s EXCEPT !.max_accel = max_accel,
              !.max_stopping_distance =
                  compute_max_stopping_distance(s.max_speed, s.start_vel, max_accel),
              !.accel_divisor = compute_accel_divisor(max_accel),
              !.inital_delay = compute_inital_delay(s.start_vel, max_accel)]

\* a set_start_vel that forgets the first delay of the ramp
set_start_vel_stale_delay(s, start_vel) ==
    [s EXCEPT !.start_vel = start_vel,
              !.max_stopping_distance =
                  compute_max_stopping_distance(s.max_speed, start_vel, s.max_accel)]

set_start_vel(s, start_vel) ==
    [s EXCEPT !.start_vel = start_vel,
              !.max_stopping_distance =
                  compute_max_stopping_distance(s.max_speed, start_vel, s.max_accel),
              !.inital_delay = compute_inital_delay(start_vel, s.max_accel)]

\* values the mutators are called with: speeds below and above the start
\* velocities, so that the stopping distance saturates at 0 for some
MaxSpeeds == {10, 20}
MaxAccels == {32, 50}
StartVels == {6, 10, 25}

\* a mutator is called between plans
Mutate(s) ==
    /\ Idle
    /\ stepper' = s
    /\ ret' = NoRet
    /\ emitted' = 0
    /\ start_pos' = None
    /\ target' = None
    /\ UNCHANGED <<plan, panicked, overflow_checks>>
    /\ UNCHANGED dvars

SetMaxSpeed == \E v \in MaxSpeeds : Mutate(set_max_speed(stepper, v))
SetMaxAccel == \E a \in MaxAccels : Mutate(set_max_accel(stepper, a))
SetStartVel == \E v \in StartVels : Mutate(set_start_vel(stepper, v))

MutatorNext ==
    \/ HomingCall
    \/ HomingNext
    \/ DropPlan
    \/ SetTravelLimit
    \/ SetMaxSpeed
    \/ SetMaxAccel
    \/ SetStartVel

MutatorSpec == PlannerInit /\ [][MutatorNext]_vars

\* the derived fields are those of Stepper::new on the current parameters
DerivedFresh(s) ==
    LET fresh == StepperNew(s.travel_limit, s.max_speed, s.max_accel,
                            s.start_vel, s.dir_to_home)
    IN /\ s.cruise_delay = fresh.cruise_delay
       /\ s.accel_divisor = fresh.accel_divisor
       /\ s.inital_delay = fresh.inital_delay
       /\ s.max_stopping_distance = fresh.max_stopping_distance

\* C33: after any sequence of set_travel_limit, set_max_speed, set_max_accel
\* and set_start_vel calls the derived fields cruise_delay, accel_divisor,
\* inital_delay and max_stopping_distance are those of a Stepper freshly
\* constructed with the current parameters, and no mutator changes the
\* position.
C33_MutatorsRecompute ==
    /\ []DerivedFresh(stepper)
    /\ [][ (plan.kind = "none" /\ plan'.kind = "none") =>
              pos(stepper') = pos(stepper) ]_vars

\* All four parameters have been changed on a homed Stepper, to a combination
\* no constructor call of the model produced.
C33_Witness ==
    /\ pos(stepper) = 0
    /\ plan.kind = "none"
    /\ stepper.travel_limit = 2
    /\ stepper.max_speed = 20
    /\ stepper.max_accel = 32
    /\ stepper.start_vel = 25
    /\ stepper.max_stopping_distance = 0

-----------------------------------------------------------------------------
(* Part 11.  The dispatcher: position signal, pins and homing               *)
(* (motor.rs 83-210)                                                        *)

\* motor_task takes a command with LAST_COMMAND.wait()
CommandTaken == mpc = "wait" /\ exec_log' # exec_log

\* motor_task reaches the end of the loop body of a command: either in the
\* step that took it (no motion) or when its plan has returned None
CommandDone ==
    /\ mpc' = "wait"
    /\ \/ CommandTaken
       \/ mpc = "delay" /\ cur # "boot"

\* C34: the dispatcher signals CURRENT_POS once for each command it takes at
\* LAST_COMMAND.wait(): in the step that ends the command, when its motion (if
\* any) is over, the STEP pin is low and no plan is left, and with the
\* percentage of the position the command ended at; CURRENT_POS is not
\* signaled in any other step, so never between two pulses of a move and not
\* by the boot homing.
C34_OnePositionPerCommand ==
    [][ /\ CommandDone =>
              /\ CURRENT_POS' = position_percent(stepper')
              /\ cur' = "none"
              /\ plan' = NoPlan
              /\ step_pin' = "Low"
        /\ ~CommandDone => CURRENT_POS' = CURRENT_POS
        /\ (CommandTaken /\ ~CommandDone) => mpc' \in {"high", "panicked"}
      ]_vars

\* Two commands have been taken and ended, the second after a motion that
\* left the position away from home, and the position signal carries its
\* percentage.
C34_Witness ==
    /\ mpc = "wait"
    /\ Len(exec_log) = 2
    /\ emitted > 0
    /\ pos(stepper) > 0
    /\ CURRENT_POS = position_percent(stepper)
    /\ CURRENT_POS > 0

-----------------------------------------------------------------------------
(* Part 12.  Tmc2209::new (tmc2209.rs 32-45), one turn of its loop at a     *)
(* time.  tmc holds the addrs_present given, the IFCNT register of each     *)
(* chip as the 32-bit value its reply carries, tmp.ifcnt, the local array   *)
(* present, the loop index addr, the read requests sent so far as           *)
(* <<slave, register>>, and what new returned.                              *)

IFCNT == 2

\* every addrs_present
AllPresent == [1 .. 4 -> BOOLEAN]

\* register values of a chip: counters, and values with bits above the low 8
ChipValues == {0, 255, 256 + 7}

NewStart(addrs_present, chip) ==
    LET ifcnt == [i \in 1 .. 4 |-> IF addrs_present[i] THEN 0 ELSE None]
    IN [op |-> "new", addrs_present |-> addrs_present, chip |-> chip,
        ifcnt |-> ifcnt, present |-> ifcnt, addr |-> 0, reads |-> <<>>,
        ret |-> "-"]

\* a loop body that reads the counter of every address
new_visit_reads_all(t, res) ==
    LET a == t.addr
        reads == Append(t.reads, <<a, IFCNT>>)
    IN IF res = "Ok"
          THEN [t EXCEPT !.addr = a + 1, !.reads = reads,
                         !.present[a + 1] = as_u8(t.chip[a + 1])]
          ELSE [t EXCEPT !.op = "failed", !.reads = reads, !.ret = res]

\* the body of the loop for address t.addr; res is how read_register ends
new_visit(t, res) ==
    LET a == t.addr
        reads == Append(t.reads, <<a, IFCNT>>)
    IN IF t.present[a + 1] = None
          THEN [t EXCEPT !.addr = a + 1]
          ELSE IF res = "Ok"
                  THEN [t EXCEPT !.addr = a + 1, !.reads = reads,
                                 !.present[a + 1] = as_u8(t.chip[a + 1])]
                  ELSE [t EXCEPT !.op = "failed", !.reads = reads, !.ret = res]

\* tmp.ifcnt = present; Ok(tmp)
new_return(t) == [t EXCEPT !.op = "built", !.ifcnt = t.present, !.ret = "Ok"]

NewInit ==
    /\ PlannerIdle
    /\ TasksIdle
    /\ held = NoHeld
    /\ led = "waiting"
    /\ rr = NoRr
    /\ rp = NoRp
    /\ \E addrs_present \in AllPresent, chip \in [1 .. 4 -> ChipValues] :
          tmc = NewStart(addrs_present, chip)

NewVisit ==
    /\ tmc.op = "new"
    /\ tmc.addr < 4
    /\ \E res \in ReadResults : tmc' = new_visit(tmc, res)
    /\ TmcOnly

NewReturn ==
    /\ tmc.op = "new"
    /\ tmc.addr = 4
    /\ tmc' = new_return(tmc)
    /\ TmcOnly

NewNext == NewVisit \/ NewReturn

NewSpec == NewInit /\ [][NewNext]_vars

\* the present addresses below n, in ascending order, each with register 0x02
RECURSIVE ReadsBelow(_, _)
ReadsBelow(addrs_present, n) ==
    IF n = 0 THEN <<>>
    ELSE IF addrs_present[n]
            THEN Append(ReadsBelow(addrs_present, n - 1), <<n - 1, 2>>)
            ELSE ReadsBelow(addrs_present, n - 1)

\* C35: Tmc2209::new reads register 0x02 once for each present address, in
\* address order, and reads no absent address; when every read succeeded the
\* driver's shadow of each present address is the low 8 bits of the value
\* read and every absent address has none; when a read fails, new returns
\* that read's error, it is the last read made, and no driver is produced.
C35_NewReadsPresent ==
    /\ tmc.op = "new" =>
          /\ tmc.ret = "-"
          /\ tmc.reads = ReadsBelow(tmc.addrs_present, tmc.addr)
    /\ tmc.op = "built" =>
          /\ tmc.ret = "Ok"
          /\ tmc.reads = ReadsBelow(tmc.addrs_present, 4)
          /\ \A i \in 1 .. 4 :
                tmc.ifcnt[i] = IF tmc.addrs_present[i]
                                  THEN tmc.chip[i] % 256
                                  ELSE None
    /\ tmc.op = "failed" =>
          /\ tmc.ret \in ReadResults \ {"Ok"}
          /\ tmc.addrs_present[tmc.addr + 1]
          /\ tmc.reads = ReadsBelow(tmc.addrs_present, tmc.addr + 1)

\* A driver for addresses 0 and 2 has been built from two reads, one of a
\* value above 255.
C35_Witness ==
    /\ tmc.op = "built"
    /\ tmc.addrs_present = <<TRUE, FALSE, TRUE, FALSE>>
    /\ tmc.reads = <<<<0, 2>>, <<2, 2>>>>
    /\ tmc.chip[3] = 263
    /\ tmc.ifcnt = <<tmc.chip[1], None, 7, None>>

-----------------------------------------------------------------------------
(* Part 13.  The frames of the register interface (tmc2209.rs 141-175)      *)

\* u32::to_be_bytes of a value held as <<high half, low half>>
to_be_bytes(data) ==
    <<data[1] \div 256, data[1] % 256, data[2] \div 256, data[2] % 256>>

\* register | 0x80
or_0x80(register) == IF register >= 128 THEN register ELSE register + 128

\* a write frame with the data bytes least significant first
construct_write_uart_message_le(slave_address, register, data) ==
    LET d == to_be_bytes(data)
        msg == <<165, slave_address, or_0x80(register), d[4], d[3], d[2], d[1]>>
    IN Append(msg, calc_uart_crc(msg))

\* [0xA5, slave, register | 0x80, d1, d2, d3, d4, crc]
construct_write_uart_message(slave_address, register, data) ==
    LET d == to_be_bytes(data)
        msg == <<165, slave_address, or_0x80(register), d[1], d[2], d[3], d[4]>>
    IN Append(msg, calc_uart_crc(msg))

\* arguments the frames are built for
FrameSlaves == {0, 1, 3, 127, 128, 255}
FrameRegisters == {0, 2, 16, 108, 128, 130}
FrameData == {<<0, 0>>, <<0, 1>>, <<1, 2>>, <<258, 772>>, <<65535, 65535>>,
              <<32768, 255>>}

NoFrame == <<>>

FrameInit ==
    /\ PlannerIdle
    /\ TasksIdle
    /\ held = NoHeld
    /\ led = "waiting"
    /\ tmc = NoTmc
    /\ rp = NoRp
    /\ \E slave \in FrameSlaves, register \in FrameRegisters, data \in FrameData :
          rr = [phase |-> "args", slave |-> slave, reg |-> register,
                data |-> data, frame |-> NoFrame]

ConstructWrite ==
    /\ rr.phase = "args"
    /\ rr' = [rr EXCEPT !.phase = "write",
                        !.frame = construct_write_uart_message(rr.slave, rr.reg, rr.data)]
    /\ RrOnly

ConstructRead ==
    /\ rr.phase = "args"
    /\ rr' = [rr EXCEPT !.phase = "read",
                        !.frame = construct_read_uart_message(rr.slave, rr.reg)]
    /\ RrOnly

FrameNext == ConstructWrite \/ ConstructRead

FrameSpec == FrameInit /\ [][FrameNext]_vars

\* CRC-8 by the book, for comparison: the byte is reflected (so that its
\* least significant bit is consumed first), xored into the register, and the
\* register is shifted left eight times, xoring in 0x07 whenever a 1 leaves
bit_of(v, i) == (v \div (2 ^ i)) % 2

xor8(a, b) ==
    LET x(i) == (bit_of(a, i) + bit_of(b, i)) % 2
    IN x(0) + 2 * x(1) + 4 * x(2) + 8 * x(3) + 16 * x(4) + 32 * x(5)
         + 64 * x(6) + 128 * x(7)

reflect8(v) ==
    LET x(i) == bit_of(v, 7 - i)
    IN x(0) + 2 * x(1) + 4 * x(2) + 8 * x(3) + 16 * x(4) + 32 * x(5)
         + 64 * x(6) + 128 * x(7)

RECURSIVE crc8_shift(_, _)
crc8_shift(reg, n) ==
    IF n = 0 THEN reg
    ELSE LET next == IF reg >= 128 THEN xor8((reg * 2) % 256, 7) ELSE reg * 2
         IN IF next \in 0 .. 255 THEN crc8_shift(next, n - 1) ELSE None

RECURSIVE crc8(_, _)
crc8(reg, bytes) ==
    IF bytes = <<>> THEN reg
    ELSE LET next == crc8_shift(xor8(reg, reflect8(Head(bytes))), 8)
         IN IF next \in 0 .. 255 THEN crc8(next, Tail(bytes)) ELSE None

\* the CRC check read_register applies to a reply (tmc2209.rs 130-131)
PassesCrcCheck(buffer) == calc_uart_crc(SubSeq(buffer, 1, 7)) = buffer[8]

\* C36: the write frame for (slave, reg, data) is the 8 bytes 0xA5, slave,
\* reg | 0x80, the four bytes of data most significant first, and the CRC-8
\* (polynomial 0x07, initial value 0, bits of each byte least significant
\* first) of those seven bytes, and it passes the CRC check of read_register;
\* the read request is the 4 bytes 0xA5, slave & 0x7F, reg and the CRC-8 of
\* those three.
C36_Frames ==
    /\ rr.phase = "write" =>
          /\ Len(rr.frame) = 8
          /\ rr.frame[1] = 165
          /\ rr.frame[2] = rr.slave
          /\ rr.frame[3] = IF rr.reg >= 128 THEN rr.reg ELSE rr.reg + 128
          /\ (rr.frame[4] * 256 + rr.frame[5]) = rr.data[1]
          /\ (rr.frame[6] * 256 + rr.frame[7]) = rr.data[2]
          /\ \A i \in 1 .. 8 : rr.frame[i] \in 0 .. 255
          /\ rr.frame[8] = crc8(0, SubSeq(rr.frame, 1, 7))
          /\ PassesCrcCheck(rr.frame)
    /\ rr.phase = "read" =>
          /\ Len(rr.frame) = 4
          /\ rr.frame[1] = 165
          /\ rr.frame[2] = rr.slave % 128
          /\ rr.frame[3] = rr.reg
          /\ rr.frame[4] = crc8(0, SubSeq(rr.frame, 1, 3))

\* A write frame whose four data bytes all differ has been built.
C36_Witness ==
    /\ rr.phase = "write"
    /\ rr.data = <<258, 772>>
    /\ SubSeq(rr.frame, 4, 7) = <<1, 2, 3, 4>>
    /\ rr.frame[3] = 130
    /\ PassesCrcCheck(rr.frame)

\* the level execute_home, execute_move and execute_jog give the DIR pin
dir_level(dir) == IF dir = "ToHome" THEN DIR_TO_HOME ELSE not_level(DIR_TO_HOME)

\* the edges of the STEP pin
StepRises == step_pin = "Low" /\ step_pin' = "High"
StepFalls == step_pin = "High" /\ step_pin' = "Low"

\* C37: the DIR pin has the level of the move's direction when the first pulse
\* of a move begins and no step changes it while the move runs; every delay
\* taken from the plan raises STEP once and the next step of the dispatcher
\* lowers it again, before the plan is polled again, and STEP has no other
\* edges, so pulses and delays are equal in number; STEP is low whenever the
\* dispatcher waits for a command.
C37_PinsFollowPlan ==
    /\ [](mpc = "wait" => step_pin = "Low")
    /\ [](mpc = "high" <=> step_pin = "High")
    /\ [][ /\ StepRises <=> (mpc' = "high" /\ mpc # "high")
           /\ (mpc' = "high" /\ mpc # "high") =>
                 /\ emitted' = (IF mpc = "delay" THEN emitted + 1 ELSE 1)
                 /\ ret'.tag = "Some"
           /\ (mpc' = "high" /\ mpc \in {"boot", "wait"}) =>
                 dir_pin' = (IF plan'.kind = "homing" THEN DIR_TO_HOME
                                                       ELSE dir_level(plan'.dir))
           /\ mpc = "high" => (mpc' # "high" => (StepFalls /\ mpc' = "delay"))
           /\ StepFalls => (mpc = "high" /\ emitted' = emitted /\ plan' = plan)
           /\ mpc \in {"high", "delay"} => dir_pin' = dir_pin
           /\ (mpc = "delay" /\ emitted' # emitted) => StepRises
      ]_vars

\* A move away from the default DIR level is between two pulses, with three
\* delays taken and STEP low.
C37_Witness ==
    /\ mpc = "delay"
    /\ plan.kind = "planned"
    /\ emitted = 3
    /\ step_pin = "Low"
    /\ dir_pin = not_level(DIR_TO_HOME)

-----------------------------------------------------------------------------
(* Properties of the planned move's counter, checked under PlannerSpec *)

\* a PlannedMove::next call
PlannedPolled ==
    /\ plan.kind = "planned"
    /\ plan'.kind = "planned"
    /\ <<plan, ret, panicked, stepper>>' # <<plan, ret, panicked, stepper>>

\* C38 (as claimed): the sequence of a planned move is never polled in the
\* Cruise phase with steps_to_travel = 0, so the decrement of the Cruise branch
\* never underflows.
C38_NoCruiseUnderflow ==
    [][ (PlannedPolled /\ plan.phase = "Cruise") => plan.steps_to_travel >= 1 ]_vars

-----------------------------------------------------------------------------
(* Properties of the dispatcher's homing, checked under DispatchSpec *)

\* motor_task is in its command loop: at LAST_COMMAND.wait() or executing a
\* command
InCommandLoop ==
    \/ mpc = "wait"
    \/ mpc \in {"high", "delay"} /\ cur # "boot"

\* C39: whenever the dispatcher waits for or executes a command the position
\* is known; no step makes a known position unknown; no planner call returns
\* NotHomed and SetBottom never raises the Soft error of an unhomed Stepper;
\* and no command is taken while the position is unknown, that is before the
\* endstop has read active in the boot homing move.
C39_HomedInLoop ==
    /\ [](InCommandLoop => pos(stepper) # None)
    /\ [](ret # Err("NotHomed"))
    /\ [][ /\ pos(stepper) # None => pos(stepper') # None
           /\ exec_log' # exec_log => pos(stepper) # None
           /\ Takes("SetBottom") => ERROR_SIGNAL' # "Soft"
           /\ (mpc \in {"boot", "high", "delay"} /\ cur = "boot" /\ mpc' = "wait") =>
                 (ret' = RetNone /\ pos(stepper') = 0)
      ]_vars

\* Two commands have been executed after the boot homing move, the second one
\* a move away from home.
C39_Witness ==
    /\ mpc = "wait"
    /\ Len(exec_log) = 2
    /\ pos(stepper) > 0
    /\ plan = NoPlan
    /\ cur = "none"
    /\ target # None

-----------------------------------------------------------------------------
(* Properties of the position publish path, checked under IngressSpec *)

\* C40 (as claimed): a position signaled on CURRENT_POS is not lost when the
\* MQTT session ends: whenever the session loop is left, by a failed publish
\* of the position or by any other error, a position that had not been
\* published is still held by CURRENT_POS, to be published by the next
\* session.
C40_PositionNotLost ==
    [][ (mq = "up" /\ mq' = "down" /\ CURRENT_POS # None) =>
            CURRENT_POS' = CURRENT_POS ]_vars

====
